---- MODULE Spec2Model ----
(***************************************************************************)
(* Model of the execution-trace recording engine of algorithm-visualizer:  *)
(* the class InstrumentedArray (src/unnamed/part_000) and the Step / Trace *)
(* data it records (src/src/types/index.ts).                               *)
(*                                                                         *)
(* JavaScript objects have identity.  The live array holds references to   *)
(* element objects; `[...this.array]` copies the references, not the       *)
(* objects, while `this.array.map(el => ({...el, ...}))` allocates new     *)
(* objects.  The model keeps that difference: the element objects created  *)
(* by the constructor live in `heap` and are named by their address, and a *)
(* snapshot cell is either a reference to such an object or an object of   *)
(* its own (allocated by map, reachable from that one Step only, hence     *)
(* never written again), kept by value.                                    *)
(*                                                                         *)
(* Indices are 0-based as in the source; sequence position k+1 holds the   *)
(* source's index k.                                                       *)
(***************************************************************************)
EXTENDS Integers, Sequences, FiniteSets, TLC

\* ------------------------------------------------------------------ bounds
\* Longest input array, largest element value, and the number of recorded
\* Steps below which a Step-recording call is still explored.  Element values
\* are the smallest and the largest of the range, so that equal values,
\* different values and differences larger than 1 all occur.
MaxLen == 3
MaxVal == 2
MaxSteps == 3

\* The number of recorded Steps below which a call of the code the host
\* runs is still explored: the instrumented template leaves at most 11
\* Steps on MaxLen elements of two values (the initial Step, 3 for its
\* comparisons, 2 for each of 2 exchanges, 3 for its markings).
MaxRunSteps == 11

\* ------------------------------------------------------------ value spaces
Values == {0, MaxVal}
Indices == -1..MaxLen
Texts == {"", "note"}

\* array: the live array, a sequence of element-object addresses
\* heap: the element objects the constructor allocated, by address
\* steps: the recorded Steps
\* stepDescription: the pending description ("" when none)
\* thrown: the message of the Error the last call threw, without the indices
\*         interpolated into it; "" when the call returned
VARIABLES array, heap, steps, stepDescription, thrown

\* The state of a call of a built-in algorithm (src/src/algorithms), which
\* works on a local `array` and a local `steps` of its own:
\* input: the caller's array handed to the algorithm (its parameter `arr`),
\*        element-object addresses
\* algorithm: the built-in that was called ("" before the call)
\* pc: "idle" before the call, "loop" and "exit" inside bogoSort's loop,
\*     "returned" or "thrown" after the call
\* attempts: bogoSort's attempt counter
VARIABLES input, algorithm, pc, attempts

callVars == <<input, algorithm, pc, attempts>>

\* The state of the host that runs the caller's code (CodeEditor):
\* isRunning: CodeEditor's `isRunning` state
\* code: CodeEditor's `code` state, the text in the editor
\* useVisualization: CodeEditor's `useVisualization` state
\* run: where handleRunCode is: "idle" before it is called, "called" while
\*      it awaits onRunCode, "running" while the caller's code runs,
\*      "fulfilled" or "rejected" when onRunCode has settled, "settled" when
\*      handleRunCode has returned, "escaped" when an error has left it
\* ran: the arguments handleRunCode handed to onRunCode: the code of the
\*      editor at that moment and whether to visualize
\* ip: the number of calls the running code has made so far
\* (CodeEditor's `height` state changes nothing but the size of the
\* textarea and is left out.)
VARIABLES isRunning, code, useVisualization, run, ran, ip

hostVars == <<isRunning, code, useVisualization, run, ran, ip>>

vars == <<array, heap, steps, stepDescription, thrown, input, algorithm, pc, attempts,
          isRunning, code, useVisualization, run, ran, ip>>

\* ArrayElement: { value, id, state }
ArrayElement(v, id, s) == [value |-> v, id |-> id, state |-> s]

\* The arrays a caller can hand to the constructor: ids are distinct
\* (here the initial position), values and states are arbitrary.
InputArrays ==
    UNION { { [k \in 1..n |-> ArrayElement(vs[k], k, ss[k])] :
                vs \in [1..n -> Values], ss \in [1..n -> {"default", "sorted"}] } :
            n \in 0..MaxLen }

\* A description is a template with the values interpolated into it;
\* a caller-supplied text is a template without arguments.
Desc(tmpl, args) == [tmpl |-> tmpl, args |-> args]
Text(t) == Desc(t, <<>>)

\* SortingStep: { array, compareIndices?, swapIndices?, sortedIndices?, description }
\* An absent optional field is the empty sequence.
SortingStep(arr, cmp, swp, srt, d) ==
    [array |-> arr, compareIndices |-> cmp, swapIndices |-> swp,
     sortedIndices |-> srt, description |-> d]

\* Snapshot cells: a reference to a live element object, or an object of
\* the snapshot's own.
Ref(o) == [kind |-> "ref", obj |-> o]
Own(e) == [kind |-> "own", el |-> e]

\* The element a cell shows when it is read with heap h.
Deref(c, h) == IF c.kind = "ref" THEN h[c.obj] ELSE c.el

\* [...this.array]: a new array holding the same element objects.
Spread(arr) == [k \in 1..Len(arr) |-> Ref(arr[k])]

\* this.array.map((el, idx) => ({...el, state: idx === i || idx === j ? mark : 'default'}))
MapMark(arr, h, i, j, mark) ==
    [k \in 1..Len(arr) |->
        Own([h[arr[k]] EXCEPT !.state =
                IF k - 1 = i \/ k - 1 = j THEN mark ELSE "default"])]

\* this.array.map(el => ({...el, state: 'sorted'}))
MapSorted(arr, h) ==
    [k \in 1..Len(arr) |-> Own([h[arr[k]] EXCEPT !.state = "sorted"])]

\* What a consumer reads in a Step when the heap is h.
StepView(s, h) ==
    [array |-> [k \in 1..Len(s.array) |-> Deref(s.array[k], h)],
     compareIndices |-> s.compareIndices,
     swapIndices |-> s.swapIndices,
     sortedIndices |-> s.sortedIndices,
     description |-> s.description]

\* index < 0 || index >= this.array.length, negated
InBounds(index) == ~(index < 0 \/ index >= Len(array))

\* this.stepDescription || <default>
OrDesc(pending, dflt) == IF pending # "" THEN Text(pending) ELSE dflt

\* A Step-recording call is explored while fewer than MaxSteps Steps exist,
\* fewer than MaxRunSteps in a run of the host.
CanRecord == Len(steps) < (IF run = "running" THEN MaxRunSteps ELSE MaxSteps)

\* the constructor without `this.steps.push({...})`
Constructor_recordsNothing(initialArray) ==
    LET n == Len(initialArray) IN
    /\ heap = [o \in 1..n |-> [initialArray[o] EXCEPT !.state = "default"]]
    /\ array = [k \in 1..n |-> k]
    /\ steps = <<>>
    /\ stepDescription = ""
    /\ thrown = ""

\* --------------------------------------------------------------- constructor
Constructor(initialArray) ==
    LET n == Len(initialArray) IN
    /\ heap = [o \in 1..n |-> [initialArray[o] EXCEPT !.state = "default"]]
    /\ array = [k \in 1..n |-> k]
    /\ steps = << SortingStep(Spread([k \in 1..n |-> k]), <<>>, <<>>, <<>>,
                              Text("Starting custom algorithm")) >>
    /\ stepDescription = ""
    /\ thrown = ""

\* No built-in algorithm is involved in a run of an InstrumentedArray.
NoCall == input = <<>> /\ algorithm = "" /\ pc = "idle" /\ attempts = 0

\* A text of the editor is known by what it does when it is run: `text`
\* tells the two templates ("visual", "simple") and the empty text ("")
\* from a text the caller typed ("typed"), and a typed text is the calls it
\* makes on its argument, in order, and the way it ends ("return", or
\* "throw" for an Error of its own).
\* initialCode = '': the default of the prop the editor starts with
initialCode == [text |-> "", calls |-> <<>>, ends |-> "return"]

\* No host is involved when an InstrumentedArray or a built-in is used
\* directly: the editor is as it is created and nothing has been run.
NoRun ==
    /\ isRunning = FALSE
    /\ code = initialCode
    /\ useVisualization = TRUE
    /\ run = "idle"
    /\ ran = [code |-> initialCode, useVisualization |-> TRUE]
    /\ ip = 0

Init == NoCall /\ NoRun /\ \E initialArray \in InputArrays : Constructor(initialArray)

\* ------------------------------------------------------------------ helpers
ValueAt(arr, h, index) == h[arr[index + 1]].value

\* The steps after addStep(description): description || this.stepDescription
\* || 'Algorithm step'.  An absent or empty description is Text("").
AddStepTo(stps, arr, pending, description) ==
    Append(stps,
           SortingStep(Spread(arr), <<>>, <<>>, <<>>,
                       IF description.tmpl # "" THEN description
                       ELSE OrDesc(pending, Text("Algorithm step"))))

\* [arr[i], arr[j]] = [arr[j], arr[i]]
Exchange(arr, i, j) ==
    [k \in 1..Len(arr) |->
        IF k = i + 1 THEN arr[j + 1] ELSE IF k = j + 1 THEN arr[i + 1] ELSE arr[k]]

\* for (let i = start; i <= end; i++) sortedIndices.push(i)
RangeIndices(start, end) == [k \in 1..(end - start + 1) |-> start + k - 1]

\* throw new Error(message), before the call has written anything.
Throws(message) ==
    /\ thrown' = message
    /\ UNCHANGED callVars
    /\ UNCHANGED <<array, heap, steps, stepDescription>>

\* ------------------------------------------------- values the calls return
\* get(index), when it does not throw
getResult(index) == ValueAt(array, heap, index)

\* the length getter
lengthResult == Len(array)

\* compare returning value[j] - value[i]
compareResult_reversed(i, j) == ValueAt(array, heap, j) - ValueAt(array, heap, i)

\* compare(i, j), when it does not throw
compareResult(i, j) == ValueAt(array, heap, i) - ValueAt(array, heap, j)

\* getSteps(): [...this.steps, finalStep]
getStepsResult ==
    steps \o << SortingStep(MapSorted(array, heap), <<>>, <<>>, <<>>,
                            Text("Algorithm completed! All elements are sorted.")) >>

\* getValues(): this.array.map(el => el.value); toArray() returns the same.
getValues == [k \in 1..Len(array) |-> heap[array[k]].value]

\* ------------------------------------------------------------------ mutants
\* Variants of the operations below, each changed the way a slip in the
\* source would change it; the properties at the end are checked against them.

\* swap without `if (i === j) return`
swap_noSelfCheck(i, j) ==
    IF ~InBounds(i) \/ ~InBounds(j)
    THEN Throws("Invalid indices")
    ELSE /\ CanRecord
         /\ array' = Exchange(array, i, j)
         /\ steps' = AddStepTo(
                Append(steps,
                    SortingStep(MapMark(array, heap, i, j, "swapping"), <<>>, <<i, j>>, <<>>,
                        OrDesc(stepDescription,
                               Desc("Swapping elements at positions {0} and {1}: {2} <-> {3}",
                                    <<i, j, ValueAt(array, heap, i), ValueAt(array, heap, j)>>)))),
                array', stepDescription,
                Desc("Swapped! Position {0} now has {1}, position {2} now has {3}",
                     <<i, ValueAt(array', heap, i), j, ValueAt(array', heap, j)>>))
         /\ stepDescription' = ""
         /\ thrown' = ""
         /\ UNCHANGED callVars
         /\ UNCHANGED heap

\* swap whose second Step is recorded by addStep() without a description
swap_reusesDescription(i, j) ==
    IF ~InBounds(i) \/ ~InBounds(j)
    THEN Throws("Invalid indices")
    ELSE IF i = j
    THEN /\ thrown' = ""
         /\ UNCHANGED callVars
         /\ UNCHANGED <<array, heap, steps, stepDescription>>
    ELSE /\ CanRecord
         /\ array' = Exchange(array, i, j)
         /\ steps' = AddStepTo(
                Append(steps,
                    SortingStep(MapMark(array, heap, i, j, "swapping"), <<>>, <<i, j>>, <<>>,
                        OrDesc(stepDescription,
                               Desc("Swapping elements at positions {0} and {1}: {2} <-> {3}",
                                    <<i, j, ValueAt(array, heap, i), ValueAt(array, heap, j)>>)))),
                array', stepDescription, Text(""))
         /\ stepDescription' = ""
         /\ thrown' = ""
         /\ UNCHANGED callVars
         /\ UNCHANGED heap

\* compare marking the live elements instead of a mapped copy
compare_marksLive(i, j) ==
    IF ~InBounds(i) \/ ~InBounds(j)
    THEN Throws("Invalid indices")
    ELSE /\ CanRecord
         /\ heap' = [o \in DOMAIN heap |->
                        IF o = array[i + 1] \/ o = array[j + 1]
                        THEN [heap[o] EXCEPT !.state = "comparing"] ELSE heap[o]]
         /\ steps' = Append(steps,
                SortingStep(Spread(array), <<i, j>>, <<>>, <<>>,
                    OrDesc(stepDescription,
                           Desc("Comparing elements at positions {0} and {1}: {2} vs {3}",
                                <<i, j, ValueAt(array, heap, i), ValueAt(array, heap, j)>>))))
         /\ stepDescription' = ""
         /\ thrown' = ""
         /\ UNCHANGED callVars
         /\ UNCHANGED array

\* compare clearing the pending description before it checks its indices
compare_clearsFirst(i, j) ==
    IF ~InBounds(i) \/ ~InBounds(j)
    THEN /\ thrown' = "Invalid indices"
         /\ UNCHANGED callVars
         /\ stepDescription' = ""
         /\ UNCHANGED <<array, heap, steps>>
    ELSE /\ CanRecord
         /\ steps' = Append(steps,
                SortingStep(MapMark(array, heap, i, j, "comparing"), <<i, j>>, <<>>, <<>>,
                    OrDesc(stepDescription,
                           Desc("Comparing elements at positions {0} and {1}: {2} vs {3}",
                                <<i, j, ValueAt(array, heap, i), ValueAt(array, heap, j)>>))))
         /\ stepDescription' = ""
         /\ thrown' = ""
         /\ UNCHANGED callVars
         /\ UNCHANGED <<array, heap>>

\* set writing a fresh element { value, id, state: 'default' } into the slot
set_replacesElement(index, value) ==
    IF ~InBounds(index)
    THEN Throws("Index out of bounds")
    ELSE /\ CanRecord
         /\ heap' = [heap EXCEPT ![array[index + 1]] =
                        ArrayElement(value, heap[array[index + 1]].id, "default")]
         /\ steps' = AddStepTo(steps, array, stepDescription,
                               Desc("Set element at index {0} to {1}", <<index, value>>))
         /\ stepDescription' = ""
         /\ thrown' = ""
         /\ UNCHANGED callVars
         /\ UNCHANGED array

\* markRangeSorted looping `i < end`
markRangeSorted_exclusiveEnd(start, end) ==
    IF start < 0 \/ end >= Len(array) \/ start > end
    THEN Throws("Invalid range")
    ELSE /\ CanRecord
         /\ heap' = [o \in DOMAIN heap |->
                        IF \E k \in start..(end - 1) : array[k + 1] = o
                        THEN [heap[o] EXCEPT !.state = "sorted"] ELSE heap[o]]
         /\ steps' = Append(steps,
                SortingStep(Spread(array), <<>>, <<>>, RangeIndices(start, end - 1),
                    OrDesc(stepDescription,
                           Desc("Elements from position {0} to {1} are now sorted",
                                <<start, end>>))))
         /\ stepDescription' = ""
         /\ thrown' = ""
         /\ UNCHANGED callVars
         /\ UNCHANGED array

\* getSteps pushing the final Step onto this.steps
getSteps_pushesFinal ==
    /\ steps' = getStepsResult
    /\ thrown' = ""
    /\ UNCHANGED callVars
    /\ UNCHANGED <<array, heap, stepDescription>>

\* set recording the written index as a sorted index in its Step
set_marksIndex(index, value) ==
    IF ~InBounds(index)
    THEN Throws("Index out of bounds")
    ELSE /\ CanRecord
         /\ heap' = [heap EXCEPT ![array[index + 1]].value = value]
         /\ steps' = Append(steps,
                SortingStep(Spread(array), <<>>, <<>>, <<index>>,
                    Desc("Set element at index {0} to {1}", <<index, value>>)))
         /\ stepDescription' = ""
         /\ thrown' = ""
         /\ UNCHANGED callVars
         /\ UNCHANGED array

\* swap exchanging the values of the two element objects instead of the objects
swap_exchangesValues(i, j) ==
    IF ~InBounds(i) \/ ~InBounds(j)
    THEN Throws("Invalid indices")
    ELSE IF i = j
    THEN /\ thrown' = ""
         /\ UNCHANGED callVars
         /\ UNCHANGED <<array, heap, steps, stepDescription>>
    ELSE /\ CanRecord
         /\ heap' = [heap EXCEPT ![array[i + 1]].value = ValueAt(array, heap, j),
                                 ![array[j + 1]].value = ValueAt(array, heap, i)]
         /\ steps' = AddStepTo(
                Append(steps,
                    SortingStep(MapMark(array, heap, i, j, "swapping"), <<>>, <<i, j>>, <<>>,
                        OrDesc(stepDescription,
                               Desc("Swapping elements at positions {0} and {1}: {2} <-> {3}",
                                    <<i, j, ValueAt(array, heap, i), ValueAt(array, heap, j)>>)))),
                array, stepDescription,
                Desc("Swapped! Position {0} now has {1}, position {2} now has {3}",
                     <<i, ValueAt(array, heap', i), j, ValueAt(array, heap', j)>>))
         /\ stepDescription' = ""
         /\ thrown' = ""
         /\ UNCHANGED callVars
         /\ UNCHANGED array

\* --------------------------------------------------------------- operations
setStepDescription(description) ==
    /\ stepDescription' = description
    /\ thrown' = ""
    /\ UNCHANGED callVars
    /\ UNCHANGED <<array, heap, steps>>

get(index) ==
    IF ~InBounds(index)
    THEN Throws("Index out of bounds")
    ELSE /\ thrown' = ""
         /\ UNCHANGED callVars
         /\ UNCHANGED <<array, heap, steps, stepDescription>>

set(index, value) ==
    IF ~InBounds(index)
    THEN Throws("Index out of bounds")
    ELSE /\ CanRecord
         /\ heap' = [heap EXCEPT ![array[index + 1]].value = value]
         /\ steps' = AddStepTo(steps, array, stepDescription,
                               Desc("Set element at index {0} to {1}", <<index, value>>))
         /\ stepDescription' = ""
         /\ thrown' = ""
         /\ UNCHANGED callVars
         /\ UNCHANGED array

length ==
    /\ thrown' = ""
    /\ UNCHANGED callVars
    /\ UNCHANGED <<array, heap, steps, stepDescription>>

compare(i, j) ==
    IF ~InBounds(i) \/ ~InBounds(j)
    THEN Throws("Invalid indices")
    ELSE /\ CanRecord
         /\ steps' = Append(steps,
                SortingStep(MapMark(array, heap, i, j, "comparing"), <<i, j>>, <<>>, <<>>,
                    OrDesc(stepDescription,
                           Desc("Comparing elements at positions {0} and {1}: {2} vs {3}",
                                <<i, j, ValueAt(array, heap, i), ValueAt(array, heap, j)>>))))
         /\ stepDescription' = ""
         /\ thrown' = ""
         /\ UNCHANGED callVars
         /\ UNCHANGED <<array, heap>>

swap(i, j) ==
    IF ~InBounds(i) \/ ~InBounds(j)
    THEN Throws("Invalid indices")
    ELSE IF i = j
    THEN /\ thrown' = ""
         /\ UNCHANGED callVars
         /\ UNCHANGED <<array, heap, steps, stepDescription>>
    ELSE /\ CanRecord
         /\ array' = Exchange(array, i, j)
         /\ steps' = AddStepTo(
                Append(steps,
                    SortingStep(MapMark(array, heap, i, j, "swapping"), <<>>, <<i, j>>, <<>>,
                        OrDesc(stepDescription,
                               Desc("Swapping elements at positions {0} and {1}: {2} <-> {3}",
                                    <<i, j, ValueAt(array, heap, i), ValueAt(array, heap, j)>>)))),
                array', stepDescription,
                Desc("Swapped! Position {0} now has {1}, position {2} now has {3}",
                     <<i, ValueAt(array', heap, i), j, ValueAt(array', heap, j)>>))
         /\ stepDescription' = ""
         /\ thrown' = ""
         /\ UNCHANGED callVars
         /\ UNCHANGED heap

markSorted(index) ==
    IF ~InBounds(index)
    THEN Throws("Index out of bounds")
    ELSE /\ CanRecord
         /\ heap' = [heap EXCEPT ![array[index + 1]].state = "sorted"]
         /\ steps' = Append(steps,
                SortingStep(Spread(array), <<>>, <<>>, <<index>>,
                    OrDesc(stepDescription,
                           Desc("Element at position {0} ({1}) is now in its final sorted position",
                                <<index, ValueAt(array, heap, index)>>))))
         /\ stepDescription' = ""
         /\ thrown' = ""
         /\ UNCHANGED callVars
         /\ UNCHANGED array

markRangeSorted(start, end) ==
    IF start < 0 \/ end >= Len(array) \/ start > end
    THEN Throws("Invalid range")
    ELSE /\ CanRecord
         /\ heap' = [o \in DOMAIN heap |->
                        IF \E k \in start..end : array[k + 1] = o
                        THEN [heap[o] EXCEPT !.state = "sorted"] ELSE heap[o]]
         /\ steps' = Append(steps,
                SortingStep(Spread(array), <<>>, <<>>, RangeIndices(start, end),
                    OrDesc(stepDescription,
                           Desc("Elements from position {0} to {1} are now sorted",
                                <<start, end>>))))
         /\ stepDescription' = ""
         /\ thrown' = ""
         /\ UNCHANGED callVars
         /\ UNCHANGED array

addStep(description) ==
    /\ CanRecord
    /\ steps' = AddStepTo(steps, array, stepDescription, Text(description))
    /\ stepDescription' = ""
    /\ thrown' = ""
    /\ UNCHANGED callVars
    /\ UNCHANGED <<array, heap>>

getSteps ==
    /\ thrown' = ""
    /\ UNCHANGED callVars
    /\ UNCHANGED <<array, heap, steps, stepDescription>>

\* A call of an operation leaves the host as it is.
Next ==
    \/ UNCHANGED hostVars /\ \E t \in Texts : setStepDescription(t)
    \/ UNCHANGED hostVars /\ \E i \in Indices : get(i)
    \/ UNCHANGED hostVars /\ \E i \in Indices, v \in Values : set(i, v)
    \/ UNCHANGED hostVars /\ length
    \/ UNCHANGED hostVars /\ \E i, j \in Indices : compare(i, j)
    \/ UNCHANGED hostVars /\ \E i, j \in Indices : swap(i, j)
    \/ UNCHANGED hostVars /\ \E i \in Indices : markSorted(i)
    \/ UNCHANGED hostVars /\ \E s, e \in Indices : markRangeSorted(s, e)
    \/ UNCHANGED hostVars /\ \E t \in Texts : addStep(t)
    \/ UNCHANGED hostVars /\ getSteps

Spec == Init /\ [][Next]_vars

\* ======================================================= built-in algorithms
\* The static methods of SimpleSorts, EfficientSorts, ImprovedSorts,
\* SpecializedSorts and NoveltySorts.  Each takes the caller's array `arr`,
\* works on the local copy `array = [...arr]`, which holds the caller's element
\* objects, and returns its local `steps`.  A call runs to completion; only
\* bogoSort, whose shuffles are random, is followed attempt by attempt.

\* ------------------------------------------------------------------ bounds
\* Longest array handed to a built-in.
SortLen == 4

\* Longest array handed to bogoSort: the trace of a call records every
\* shuffle, so every further element multiplies the traces of 50 attempts.
BogoLen == SortLen \div 2

\* Element values: negative ones, a gap larger than 1, and a two-digit value.
SortValues == {-2, -1, 0, 3, 12}

\* The state the elements of the caller's array are in: fresh, or left as
\* `sorted` by an earlier run.
InputStates == {"default", "sorted"}

\* The array of the documented example, [5, 3, 8, 1].
ExampleInput == [k \in 1..4 |-> ArrayElement(<<5, 3, 8, 1>>[k], k, "default")]

\* The arrays a caller can hand to a built-in: distinct ids (the position).
SortInputs ==
    UNION { { [k \in 1..n |-> ArrayElement(vs[k], k, st)] :
                vs \in [1..n -> SortValues], st \in InputStates } :
            n \in 0..SortLen }
      \cup {ExampleInput}

\* ------------------------------------------------------------- local state
\* const steps = []; const array = [...arr];
Locals(a, h) == [array |-> a, heap |-> h, steps |-> <<>>, thrown |-> ""]

\* steps.push(step)
Push(s, step) == [s EXCEPT !.steps = Append(@, step)]

\* { array, description }
Plain(cells, d) == SortingStep(cells, <<>>, <<>>, <<>>, d)

\* array[i].value
Val(s, i) == s.heap[s.array[i + 1]].value

\* [array[i], array[j]] = [array[j], array[i]]
Swapped(s, i, j) == [s EXCEPT !.array = Exchange(@, i, j)]

\* array[i].state = 'sorted'; array[i] is undefined outside the array and the
\* assignment then throws a TypeError.
MarkSorted(s, i) ==
    IF i < 0 \/ i >= Len(s.array)
    THEN [s EXCEPT !.thrown = "TypeError"]
    ELSE [s EXCEPT !.heap[s.array[i + 1]].state = "sorted"]

\* array[i] = element
Assign(s, i, o) == [s EXCEPT !.array[i + 1] = o]

\* array.map(el => ({...el, state: 'sorted'})) as the last Step
Complete(s, text) == Push(s, Plain(MapSorted(s.array, s.heap), Text(text)))

\* array.map((el, idx) => ({...el, state: idx in marked ? mark : 'default'}))
MapSet(a, h, marked, mark) ==
    [k \in 1..Len(a) |->
        Own([h[a[k]] EXCEPT !.state = IF (k - 1) \in marked THEN mark ELSE "default"])]

\* A call of a built-in runs to completion: the caller gets the returned
\* steps, or the error thrown (the local steps are lost with the call).
Call(name, result) ==
    \E r \in {result} :
        /\ algorithm' = name
        /\ array' = r.array
        /\ heap' = r.heap
        /\ steps' = IF r.thrown = "" THEN r.steps ELSE <<>>
        /\ thrown' = r.thrown
        /\ pc' = IF r.thrown = "" THEN "returned" ELSE "thrown"
        /\ UNCHANGED <<input, attempts, stepDescription, hostVars>>

\* ------------------------------------------------------------------ mutants
\* Variants of the definitions below with one fault each; a property that
\* holds of the model must fail when the definition is replaced by its variant.

RECURSIVE selectionSort_j_largest(_, _, _)
\* selectionSort's inner loop taking the larger element as the minimum
selectionSort_j_largest(s, minIdx, j) ==
    IF ~(j < Len(s.array)) THEN [s |-> s, minIdx |-> minIdx]
    ELSE LET compared ==
                 Push(s, Plain(MapMark(s.array, s.heap, j, minIdx, "comparing"),
                               Desc("Comparing {0} with current minimum {1}",
                                    <<Val(s, j), Val(s, minIdx)>>)))
             found ==
                 Push(compared, Plain(MapMark(s.array, s.heap, j, j, "comparing"),
                                      Desc("New minimum found: {0} at position {1}",
                                           <<Val(s, j), j>>)))
         IN  IF Val(s, j) > Val(s, minIdx)
             THEN selectionSort_j_largest(found, j, j + 1)
             ELSE selectionSort_j_largest(compared, minIdx, j + 1)

\* miracleSort declaring the miracle whatever the input
miracleSortSteps_alwaysMiracle(a, h) ==
    Complete(Push(Locals(a, h),
                  Plain(Spread(a), Text("Starting Miracle Sort - Check if array is sorted, if not, wait for a miracle!"))),
             "Miracle! The array was already sorted!")

\* sleepSort's display array without the padding
DisplayArray_unpadded(result, n) == [k \in 1..Len(result) |-> Ref(result[k])]

RECURSIVE bubbleSort_j_swapsEqual(_, _, _)
\* bubbleSort's inner loop swapping on `>=`
bubbleSort_j_swapsEqual(s, i, j) ==
    IF ~(j < Len(s.array) - i - 1) THEN s
    ELSE LET compared ==
                 Push(s, SortingStep(MapMark(s.array, s.heap, j, j + 1, "comparing"),
                                     <<j, j + 1>>, <<>>, <<>>,
                                     Desc("Comparing elements at positions {0} and {1}: {2} vs {3}",
                                          <<j, j + 1, Val(s, j), Val(s, j + 1)>>)))
             swapping ==
                 Push(compared, SortingStep(MapMark(s.array, s.heap, j, j + 1, "swapping"),
                                            <<>>, <<j, j + 1>>, <<>>,
                                            Desc("Swapping {0} and {1}", <<Val(s, j), Val(s, j + 1)>>)))
             swapped == Swapped(swapping, j, j + 1)
             after ==
                 Push(swapped, Plain(Spread(swapped.array),
                                     Desc("After swap: {0} and {1}",
                                          <<Val(swapped, j), Val(swapped, j + 1)>>)))
         IN  bubbleSort_j_swapsEqual(IF Val(s, j) >= Val(s, j + 1) THEN after ELSE compared,
                                     i, j + 1)

RECURSIVE heapify_leftOnly(_, _, _)
\* heapify that never looks at the right child
heapify_leftOnly(s, n, i) ==
    LET left == 2 * i + 1
        largest == IF left < n /\ Val(s, left) > Val(s, i) THEN left ELSE i
        swapping ==
            Push(s, Plain(MapMark(s.array, s.heap, i, largest, "swapping"),
                          Desc("Heapifying: Swapping {0} with {1}",
                               <<Val(s, i), Val(s, largest)>>)))
    IN  IF largest # i THEN heapify_leftOnly(Swapped(swapping, i, largest), n, largest) ELSE s

\* -------------------------------------------------------------- SimpleSorts
RECURSIVE bubbleSort_j(_, _, _)
\* for (let j = 0; j < n - i - 1; j++) { compare; swap if greater }
bubbleSort_j(s, i, j) ==
    IF ~(j < Len(s.array) - i - 1) THEN s
    ELSE LET compared ==
                 Push(s, SortingStep(MapMark(s.array, s.heap, j, j + 1, "comparing"),
                                     <<j, j + 1>>, <<>>, <<>>,
                                     Desc("Comparing elements at positions {0} and {1}: {2} vs {3}",
                                          <<j, j + 1, Val(s, j), Val(s, j + 1)>>)))
             swapping ==
                 Push(compared, SortingStep(MapMark(s.array, s.heap, j, j + 1, "swapping"),
                                            <<>>, <<j, j + 1>>, <<>>,
                                            Desc("Swapping {0} and {1}", <<Val(s, j), Val(s, j + 1)>>)))
             swapped == Swapped(swapping, j, j + 1)
             after ==
                 Push(swapped, Plain(Spread(swapped.array),
                                     Desc("After swap: {0} and {1}",
                                          <<Val(swapped, j), Val(swapped, j + 1)>>)))
         IN  bubbleSort_j(IF Val(s, j) > Val(s, j + 1) THEN after ELSE compared, i, j + 1)

RECURSIVE bubbleSort_i(_, _)
\* for (let i = 0; i < n - 1; i++) { inner loop; array[n - 1 - i].state = 'sorted'; push }
bubbleSort_i(s, i) ==
    LET n == Len(s.array) IN
    IF ~(i < n - 1) THEN s
    ELSE LET marked == MarkSorted(bubbleSort_j(s, i, 0), n - 1 - i)
         IN  bubbleSort_i(
                 Push(marked, SortingStep(Spread(marked.array), <<>>, <<>>, <<n - 1 - i>>,
                          Desc("Element at position {0} ({1}) is now in its final sorted position",
                               <<n - 1 - i, Val(marked, n - 1 - i)>>))),
                 i + 1)

\* bubbleSort without `array[0].state = 'sorted'` after the loop
bubbleSortSteps_firstUnmarked(a, h) ==
    LET started == Push(Locals(a, h),
                        Plain(Spread(a), Text("Starting Bubble Sort - Compare adjacent elements and swap if needed")))
        looped == bubbleSort_i(started, 0)
    IN  Push(looped, Plain(Spread(looped.array),
                           Text("Bubble Sort complete! All elements are sorted.")))

bubbleSortSteps(a, h) ==
    LET started == Push(Locals(a, h),
                        Plain(Spread(a), Text("Starting Bubble Sort - Compare adjacent elements and swap if needed")))
        marked == MarkSorted(bubbleSort_i(started, 0), 0)
    IN  IF marked.thrown # "" THEN marked
        ELSE Push(marked, Plain(Spread(marked.array),
                                Text("Bubble Sort complete! All elements are sorted.")))

bubbleSort ==
    /\ pc = "idle"
    /\ Call("bubbleSort", bubbleSortSteps(input, heap))

RECURSIVE selectionSort_j(_, _, _)
\* for (let j = i + 1; j < n; j++) { compare with the minimum; take a smaller one }
\* yields the local state and minIdx
selectionSort_j(s, minIdx, j) ==
    IF ~(j < Len(s.array)) THEN [s |-> s, minIdx |-> minIdx]
    ELSE LET compared ==
                 Push(s, Plain(MapMark(s.array, s.heap, j, minIdx, "comparing"),
                               Desc("Comparing {0} with current minimum {1}",
                                    <<Val(s, j), Val(s, minIdx)>>)))
             found ==
                 Push(compared, Plain(MapMark(s.array, s.heap, j, j, "comparing"),
                                      Desc("New minimum found: {0} at position {1}",
                                           <<Val(s, j), j>>)))
         IN  IF Val(s, j) < Val(s, minIdx)
             THEN selectionSort_j(found, j, j + 1)
             ELSE selectionSort_j(compared, minIdx, j + 1)

RECURSIVE selectionSort_i(_, _)
\* for (let i = 0; i < n - 1; i++) { find the minimum; swap it to i; mark i sorted }
selectionSort_i(s, i) ==
    LET n == Len(s.array) IN
    IF ~(i < n - 1) THEN s
    ELSE LET finding ==
                 Push(s, Plain(MapMark(s.array, s.heap, i, i, "comparing"),
                               Desc("Finding minimum element from position {0} to {1}",
                                    <<i, n - 1>>)))
             inner == selectionSort_j(finding, i, i + 1)
             minIdx == inner.minIdx
             swapping ==
                 Push(inner.s, Plain(MapMark(s.array, s.heap, i, minIdx, "swapping"),
                                     Desc("Swapping {0} with minimum {1}",
                                          <<Val(s, i), Val(s, minIdx)>>)))
             placed == IF minIdx # i THEN Swapped(swapping, i, minIdx) ELSE inner.s
             marked == MarkSorted(placed, i)
         IN  selectionSort_i(
                 Push(marked, Plain(Spread(marked.array),
                                    Desc("Position {0} is now sorted with value {1}",
                                         <<i, Val(marked, i)>>))),
                 i + 1)

selectionSortSteps(a, h) ==
    LET started == Push(Locals(a, h),
                        Plain(Spread(a), Text("Starting Selection Sort - Find minimum element and place it at the beginning")))
        marked == MarkSorted(selectionSort_i(started, 0), Len(a) - 1)
    IN  IF marked.thrown # "" THEN marked
        ELSE Push(marked, Plain(Spread(marked.array),
                                Text("Selection Sort complete! All elements are sorted.")))

selectionSort ==
    /\ pc = "idle"
    /\ Call("selectionSort", selectionSortSteps(input, heap))

RECURSIVE insertionSort_while(_, _, _)
\* while (j >= 0 && array[j].value > key.value) { push; array[j + 1] = array[j]; j--; push }
\* yields the local state and j
insertionSort_while(s, key, j) ==
    IF ~(j >= 0 /\ Val(s, j) > s.heap[key].value) THEN [s |-> s, j |-> j]
    ELSE LET moving ==
                 Push(s, Plain(MapMark(s.array, s.heap, j, j + 1, "swapping"),
                               Desc("Moving {0} one position right", <<Val(s, j)>>)))
             shifted == Assign(moving, j + 1, s.array[j + 1])
         IN  insertionSort_while(
                 Push(shifted, Plain(Spread(shifted.array),
                                     Desc("Shifted elements to make room for {0}",
                                          <<s.heap[key].value>>))),
                 key, j - 1)

RECURSIVE insertionSort_i(_, _)
\* for (let i = 1; i < n; i++) { key = array[i]; shift the larger ones; array[j + 1] = key }
insertionSort_i(s, i) ==
    IF ~(i < Len(s.array)) THEN s
    ELSE LET key == s.array[i + 1]
             inserting ==
                 Push(s, Plain(MapMark(s.array, s.heap, i, i, "comparing"),
                               Desc("Inserting {0} into sorted portion", <<s.heap[key].value>>)))
             shifted == insertionSort_while(inserting, key, i - 1)
             inserted == Assign(shifted.s, shifted.j + 1, key)
         IN  insertionSort_i(
                 Push(inserted, Plain(Spread(inserted.array),
                                      Desc("Inserted {0} at position {1}",
                                           <<s.heap[key].value, shifted.j + 1>>))),
                 i + 1)

insertionSortSteps(a, h) ==
    LET started == Push(Locals(a, h),
                        Plain(Spread(a), Text("Starting Insertion Sort - Insert each element into its correct position")))
    IN  Complete(insertionSort_i(started, 1), "Insertion Sort complete! All elements are sorted.")

insertionSort ==
    /\ pc = "idle"
    /\ Call("insertionSort", insertionSortSteps(input, heap))

\* ----------------------------------------------------------- EfficientSorts
RECURSIVE partition_j(_, _, _, _)
\* for (let j = low; j < high; j++) { compare with the pivot; move a smaller one left }
\* yields the local state and i
partition_j(s, i, j, high) ==
    IF ~(j < high) THEN [s |-> s, i |-> i]
    ELSE LET pivot == s.heap[s.array[high + 1]]
             compared ==
                 Push(s, SortingStep(MapMark(s.array, s.heap, j, high, "comparing"),
                                     <<j, high>>, <<>>, <<>>,
                                     Desc("Comparing {0} with pivot {1}",
                                          <<Val(s, j), pivot.value>>)))
             swapping ==
                 Push(compared, SortingStep(MapMark(s.array, s.heap, i + 1, j, "swapping"),
                                            <<>>, <<i + 1, j>>, <<>>,
                                            Desc("Swapping {0} and {1}",
                                                 <<Val(s, i + 1), Val(s, j)>>)))
         IN  IF Val(s, j) < pivot.value
             THEN partition_j(IF i + 1 # j THEN Swapped(swapping, i + 1, j) ELSE compared,
                              i + 1, j + 1, high)
             ELSE partition_j(compared, i, j + 1, high)

\* partition(low, high): yields the local state and the pivot's index
partition(s, low, high) ==
    LET pivot == s.heap[s.array[high + 1]]
        chosen ==
            Push(s, Plain(MapMark(s.array, s.heap, high, high, "comparing"),
                          Desc("Partitioning: Using {0} at position {1} as pivot",
                               <<pivot.value, high>>)))
        scanned == partition_j(chosen, low - 1, low, high)
        placed == Swapped(scanned.s, scanned.i + 1, high)
    IN  [s |-> Push(placed, Plain(Spread(placed.array),
                                  Desc("Pivot {0} is now in its correct position at index {1}",
                                       <<pivot.value, scanned.i + 1>>))),
         pi |-> scanned.i + 1]

RECURSIVE quickSortRecursive(_, _, _)
quickSortRecursive(s, low, high) ==
    IF low < high
    THEN LET p == partition(s, low, high)
         IN  quickSortRecursive(quickSortRecursive(p.s, low, p.pi - 1), p.pi + 1, high)
    ELSE s

quickSortSteps(a, h) ==
    LET started == Push(Locals(a, h),
                        Plain(Spread(a), Text("Starting Quick Sort - Divide and conquer approach")))
    IN  Complete(quickSortRecursive(started, 0, Len(a) - 1),
                 "Quick Sort complete! All elements are sorted.")

quickSort ==
    /\ pc = "idle"
    /\ Call("quickSort", quickSortSteps(input, heap))

\* array.slice(from, to)
Slice(a, from, to) == SubSeq(a, from + 1, to)

RECURSIVE merge_rest(_, _, _, _)
\* while (i < part.length) { array[k] = part[i]; i++; k++ }
merge_rest(s, part, i, k) ==
    IF ~(i < Len(part)) THEN [s |-> s, k |-> k]
    ELSE merge_rest(Assign(s, k, part[i + 1]), part, i + 1, k + 1)

RECURSIVE merge_both(_, _, _, _, _, _, _)
\* while (i < leftArr.length && j < rightArr.length) { push; array[k] = the smaller; k++ }
\* yields the local state, i, j and k; record tells whether a Step is
\* pushed before each comparison (mergeSort) or not (timSort)
merge_both(s, leftArr, rightArr, i, j, k, record) ==
    IF ~(i < Len(leftArr) /\ j < Len(rightArr)) THEN [s |-> s, i |-> i, j |-> j, k |-> k]
    ELSE LET l == s.heap[leftArr[i + 1]].value
             r == s.heap[rightArr[j + 1]].value
             compared ==
                 IF record
                 THEN Push(s, Plain(MapMark(s.array, s.heap, k, k, "comparing"),
                                    Desc("Comparing {0} and {1}", <<l, r>>)))
                 ELSE s
         IN  IF l <= r
             THEN merge_both(Assign(compared, k, leftArr[i + 1]), leftArr, rightArr,
                             i + 1, j, k + 1, record)
             ELSE merge_both(Assign(compared, k, rightArr[j + 1]), leftArr, rightArr,
                             i, j + 1, k + 1, record)

\* The three loops of merge(left, mid, right) on the two slices.
merge_loops(s, left, mid, right, record) ==
    LET leftArr == Slice(s.array, left, mid + 1)
        rightArr == Slice(s.array, mid + 1, right + 1)
        both == merge_both(s, leftArr, rightArr, 0, 0, left, record)
        lefts == merge_rest(both.s, leftArr, both.i, both.k)
    IN  merge_rest(lefts.s, rightArr, both.j, lefts.k).s

\* mergeSort's merge(left, mid, right)
merge(s, left, mid, right) ==
    LET merging ==
            Push(s, Plain(Spread(s.array),
                          Desc("Merging subarrays: [{0}..{1}] and [{2}..{3}]",
                               <<left, mid, mid + 1, right>>)))
        merged == merge_loops(merging, left, mid, right, TRUE)
    IN  Push(merged, Plain(Spread(merged.array),
                           Desc("Merged subarrays from position {0} to {1}", <<left, right>>)))

RECURSIVE mergeSortRecursive(_, _, _)
mergeSortRecursive(s, left, right) ==
    IF left < right
    THEN LET mid == (left + right) \div 2
         IN  merge(mergeSortRecursive(mergeSortRecursive(s, left, mid), mid + 1, right),
                   left, mid, right)
    ELSE s

mergeSortSteps(a, h) ==
    LET started == Push(Locals(a, h),
                        Plain(Spread(a), Text("Starting Merge Sort - Divide and conquer with merging")))
    IN  Complete(mergeSortRecursive(started, 0, Len(a) - 1),
                 "Merge Sort complete! All elements are sorted.")

mergeSort ==
    /\ pc = "idle"
    /\ Call("mergeSort", mergeSortSteps(input, heap))

RECURSIVE heapify(_, _, _)
\* heapify(n, i): sift array[i] down in the heap array[0..n-1]
heapify(s, n, i) ==
    LET left == 2 * i + 1
        right == 2 * i + 2
        l1 == IF left < n /\ Val(s, left) > Val(s, i) THEN left ELSE i
        largest == IF right < n /\ Val(s, right) > Val(s, l1) THEN right ELSE l1
        swapping ==
            Push(s, Plain(MapMark(s.array, s.heap, i, largest, "swapping"),
                          Desc("Heapifying: Swapping {0} with {1}",
                               <<Val(s, i), Val(s, largest)>>)))
    IN  IF largest # i THEN heapify(Swapped(swapping, i, largest), n, largest) ELSE s

RECURSIVE heapSort_build(_, _)
\* for (let i = Math.floor(n / 2) - 1; i >= 0; i--) heapify(n, i)
heapSort_build(s, i) ==
    IF ~(i >= 0) THEN s ELSE heapSort_build(heapify(s, Len(s.array), i), i - 1)

RECURSIVE heapSort_extract(_, _)
\* for (let i = n - 1; i > 0; i--) { push; swap 0 and i; mark i sorted; push; heapify(i, 0) }
heapSort_extract(s, i) ==
    IF ~(i > 0) THEN s
    ELSE LET moving ==
                 Push(s, Plain(MapMark(s.array, s.heap, 0, i, "swapping"),
                               Desc("Moving max element {0} to position {1}", <<Val(s, 0), i>>)))
             marked == MarkSorted(Swapped(moving, 0, i), i)
             final ==
                 Push(marked, Plain(Spread(marked.array),
                                    Desc("Element {0} is now in its final position",
                                         <<Val(marked, i)>>)))
         IN  heapSort_extract(heapify(final, i, 0), i - 1)

heapSortSteps(a, h) ==
    LET n == Len(a)
        started == Push(Locals(a, h),
                        Plain(Spread(a), Text("Starting Heap Sort - Build max heap then extract elements")))
        heaped == heapSort_build(started, (n \div 2) - 1)
        built == Push(heaped, Plain(Spread(heaped.array), Text("Max heap built successfully")))
        marked == MarkSorted(heapSort_extract(built, n - 1), 0)
    IN  IF marked.thrown # "" THEN marked
        ELSE Push(marked, Plain(Spread(marked.array),
                                Text("Heap Sort complete! All elements are sorted.")))

heapSort ==
    /\ pc = "idle"
    /\ Call("heapSort", heapSortSteps(input, heap))

\* const MIN_MERGE = 32: arrays up to this length are one run, sorted by
\* timSort's insertionSort with nothing to merge
MIN_MERGE == 32

Min(x, y) == IF x < y THEN x ELSE y

RECURSIVE timSort_while(_, _, _, _)
\* while (j >= left && array[j].value > keyItem.value) { push; array[j + 1] = array[j]; j-- }
\* yields the local state and j
timSort_while(s, keyItem, j, left) ==
    IF ~(j >= left /\ Val(s, j) > s.heap[keyItem].value) THEN [s |-> s, j |-> j]
    ELSE LET moving ==
                 Push(s, Plain(MapMark(s.array, s.heap, j, j + 1, "swapping"),
                               Desc("Moving {0} one position right", <<Val(s, j)>>)))
         IN  timSort_while(Assign(moving, j + 1, s.array[j + 1]), keyItem, j - 1, left)

RECURSIVE timSort_insertionSort(_, _, _, _)
\* timSort's insertionSort(left, right), from i on
timSort_insertionSort(s, left, right, i) ==
    IF ~(i <= right) THEN s
    ELSE LET keyItem == s.array[i + 1]
             shifted == timSort_while(s, keyItem, i - 1, left)
         IN  timSort_insertionSort(Assign(shifted.s, shifted.j + 1, keyItem), left, right, i + 1)

RECURSIVE timSort_runs(_, _)
\* for (let i = 0; i < n; i += MIN_MERGE) insertionSort(i, Math.min(i + MIN_MERGE - 1, n - 1))
timSort_runs(s, i) ==
    LET n == Len(s.array) IN
    IF ~(i < n) THEN s
    ELSE timSort_runs(timSort_insertionSort(s, i, Min(i + MIN_MERGE - 1, n - 1), i + 1),
                      i + MIN_MERGE)

\* timSort's merge(left, mid, right)
timSort_merge(s, left, mid, right) ==
    LET merged == merge_loops(s, left, mid, right, FALSE)
    IN  Push(merged, Plain(Spread(merged.array),
                           Desc("Merged runs from {0} to {1}", <<left, right>>)))

RECURSIVE timSort_starts(_, _, _)
\* for (let start = 0; start < n; start += size * 2) { merge(start, mid, end) if mid < end }
timSort_starts(s, size, start) ==
    LET n == Len(s.array)
        mid == start + size - 1
        end == Min(start + size * 2 - 1, n - 1)
    IN  IF ~(start < n) THEN s
        ELSE timSort_starts(IF mid < end THEN timSort_merge(s, start, mid, end) ELSE s,
                            size, start + size * 2)

RECURSIVE timSort_sizes(_, _)
\* while (size < n) { merge the runs of this size; size *= 2 }
timSort_sizes(s, size) ==
    IF ~(size < Len(s.array)) THEN s
    ELSE timSort_sizes(timSort_starts(s, size, 0), size * 2)

timSortSteps(a, h) ==
    LET started == Push(Locals(a, h),
                        Plain(Spread(a), Text("Starting Tim Sort - Hybrid stable sort combining merge sort and insertion sort")))
    IN  Complete(timSort_sizes(timSort_runs(started, 0), MIN_MERGE),
                 "Tim Sort complete! Hybrid approach achieved optimal performance.")

timSort ==
    /\ pc = "idle"
    /\ Call("timSort", timSortSteps(input, heap))

\* ----------------------------------------------------------- ImprovedSorts
RECURSIVE shellSort_while(_, _, _, _)
\* while (j >= gap && array[j - gap].value > temp.value) { push; array[j] = array[j - gap]; j -= gap }
\* yields the local state and j
shellSort_while(s, temp, j, gap) ==
    IF ~(j >= gap /\ Val(s, j - gap) > s.heap[temp].value) THEN [s |-> s, j |-> j]
    ELSE LET moving ==
                 Push(s, Plain(MapMark(s.array, s.heap, j, j - gap, "swapping"),
                               Desc("Moving {0} forward by gap {1}", <<Val(s, j - gap), gap>>)))
         IN  shellSort_while(Assign(moving, j, s.array[j - gap + 1]), temp, j - gap, gap)

RECURSIVE shellSort_i(_, _, _)
\* for (let i = gap; i < n; i++) { temp = array[i]; push; shift by gap; array[j] = temp }
shellSort_i(s, gap, i) ==
    IF ~(i < Len(s.array)) THEN s
    ELSE LET temp == s.array[i + 1]
             comparing ==
                 Push(s, Plain(MapMark(s.array, s.heap, i, i, "comparing"),
                               Desc("Comparing elements {0} positions apart", <<gap>>)))
             shifted == shellSort_while(comparing, temp, i, gap)
         IN  shellSort_i(Assign(shifted.s, shifted.j, temp), gap, i + 1)

RECURSIVE shellSort_gap(_, _)
\* for (let gap = Math.floor(n / 2); gap > 0; gap = Math.floor(gap / 2)) { push; pass }
shellSort_gap(s, gap) ==
    IF ~(gap > 0) THEN s
    ELSE shellSort_gap(
             shellSort_i(Push(s, Plain(Spread(s.array), Desc("Using gap size: {0}", <<gap>>))),
                         gap, gap),
             gap \div 2)

shellSortSteps(a, h) ==
    LET started == Push(Locals(a, h),
                        Plain(Spread(a), Text("Starting Shell Sort - Insertion sort with gap sequence")))
    IN  Complete(shellSort_gap(started, Len(a) \div 2),
                 "Shell Sort complete! All elements are sorted.")

shellSort ==
    /\ pc = "idle"
    /\ Call("shellSort", shellSortSteps(input, heap))

\* gap = Math.floor(gap / 1.3); if (gap < 1) gap = 1
\* (for gap < 13 the floating-point quotient floors as the exact one does)
combSort_shrink(gap) ==
    LET shrunk == (gap * 10) \div 13 IN IF shrunk < 1 THEN 1 ELSE shrunk

RECURSIVE combSort_i(_, _, _, _)
\* for (let i = 0; i < n - gap; i++) { push; swap if greater }
\* yields the local state and swapped
combSort_i(s, gap, i, swapped) ==
    IF ~(i < Len(s.array) - gap) THEN [s |-> s, swapped |-> swapped]
    ELSE LET compared ==
                 Push(s, Plain(MapMark(s.array, s.heap, i, i + gap, "comparing"),
                               Desc("Comparing elements {0} positions apart: {1} vs {2}",
                                    <<gap, Val(s, i), Val(s, i + gap)>>)))
             swapping ==
                 Push(compared, Plain(MapMark(s.array, s.heap, i, i + gap, "swapping"),
                                      Desc("Swapping {0} and {1}", <<Val(s, i), Val(s, i + gap)>>)))
         IN  IF Val(s, i) > Val(s, i + gap)
             THEN combSort_i(Swapped(swapping, i, i + gap), gap, i + 1, TRUE)
             ELSE combSort_i(compared, gap, i + 1, swapped)

RECURSIVE combSort_while(_, _, _)
\* while (gap !== 1 || swapped) { shrink the gap; push; swapped = false; pass }
combSort_while(s, gap, swapped) ==
    IF ~(gap # 1 \/ swapped) THEN s
    ELSE LET g == combSort_shrink(gap)
             pass == combSort_i(Push(s, Plain(Spread(s.array),
                                              Desc("Using gap size: {0}", <<g>>))),
                                g, 0, FALSE)
         IN  combSort_while(pass.s, g, pass.swapped)

combSortSteps(a, h) ==
    LET started == Push(Locals(a, h),
                        Plain(Spread(a), Text("Starting Comb Sort - Bubble sort with shrinking gap")))
    IN  Complete(combSort_while(started, Len(a), TRUE),
                 "Comb Sort complete! All elements are sorted.")

combSort ==
    /\ pc = "idle"
    /\ Call("combSort", combSortSteps(input, heap))

RECURSIVE cocktailSort_forward(_, _, _, _)
\* for (let i = left; i < right; i++) { push; swap if array[i] > array[i + 1] }
\* yields the local state and swapped
cocktailSort_forward(s, i, right, swapped) ==
    IF ~(i < right) THEN [s |-> s, swapped |-> swapped]
    ELSE LET compared ==
                 Push(s, Plain(MapMark(s.array, s.heap, i, i + 1, "comparing"),
                               Desc("Forward pass: Comparing {0} and {1}",
                                    <<Val(s, i), Val(s, i + 1)>>)))
             swapping ==
                 Push(compared, Plain(MapMark(s.array, s.heap, i, i + 1, "swapping"),
                                      Desc("Swapping {0} and {1}", <<Val(s, i), Val(s, i + 1)>>)))
         IN  IF Val(s, i) > Val(s, i + 1)
             THEN cocktailSort_forward(Swapped(swapping, i, i + 1), i + 1, right, TRUE)
             ELSE cocktailSort_forward(compared, i + 1, right, swapped)

RECURSIVE cocktailSort_backward(_, _, _, _)
\* for (let i = right; i > left; i--) { push; swap if array[i] < array[i - 1] }
\* yields the local state and swapped
cocktailSort_backward(s, i, left, swapped) ==
    IF ~(i > left) THEN [s |-> s, swapped |-> swapped]
    ELSE LET compared ==
                 Push(s, Plain(MapMark(s.array, s.heap, i, i - 1, "comparing"),
                               Desc("Backward pass: Comparing {0} and {1}",
                                    <<Val(s, i), Val(s, i - 1)>>)))
             swapping ==
                 Push(compared, Plain(MapMark(s.array, s.heap, i, i - 1, "swapping"),
                                      Desc("Swapping {0} and {1}", <<Val(s, i), Val(s, i - 1)>>)))
         IN  IF Val(s, i) < Val(s, i - 1)
             THEN cocktailSort_backward(Swapped(swapping, i, i - 1), i - 1, left, TRUE)
             ELSE cocktailSort_backward(compared, i - 1, left, swapped)

RECURSIVE cocktailSort_while(_, _, _, _)
\* while (swapped) { forward pass; mark array[right]; right--; if (!swapped) break;
\*                   backward pass; mark array[left]; left++ }
cocktailSort_while(s, left, right, swapped) ==
    IF ~swapped THEN s
    ELSE LET forward == cocktailSort_forward(s, left, right, FALSE)
             markedRight == MarkSorted(forward.s, right)
             backward == cocktailSort_backward(markedRight, right - 1, left, FALSE)
             markedLeft == MarkSorted(backward.s, left)
         IN  IF markedRight.thrown # "" THEN markedRight
             ELSE IF ~forward.swapped THEN markedRight
             ELSE IF markedLeft.thrown # "" THEN markedLeft
             ELSE cocktailSort_while(markedLeft, left + 1, right - 1, backward.swapped)

cocktailSortSteps(a, h) ==
    LET started == Push(Locals(a, h),
                        Plain(Spread(a), Text("Starting Cocktail Sort - Bidirectional bubble sort")))
        looped == cocktailSort_while(started, 0, Len(a) - 1, TRUE)
    IN  IF looped.thrown # "" THEN looped
        ELSE Complete(looped, "Cocktail Sort complete! All elements are sorted.")

cocktailSort ==
    /\ pc = "idle"
    /\ Call("cocktailSort", cocktailSortSteps(input, heap))

\* --------------------------------------------------------- SpecializedSorts
\* array.map(el => el.value)
ValuesOf(s) == [k \in 1..Len(s.array) |-> s.heap[s.array[k]].value]

\* Math.max(...values) and Math.min(...values) of a non-empty array
MathMax(values) == CHOOSE v \in {values[k] : k \in 1..Len(values)} :
                       \A k \in 1..Len(values) : values[k] <= v
MathMin(values) == CHOOSE v \in {values[k] : k \in 1..Len(values)} :
                       \A k \in 1..Len(values) : v <= values[k]

\* new Array(n): n empty slots; a slot that was never written reads as
\* undefined, which is address 0 here.
NewArray(n) == [k \in 1..n |-> 0]

\* output[index] = { ...element }: a new object, written into the slot
PutCopy(r, index, element) ==
    [r EXCEPT !.s.heap = Append(@, element),
              !.output[index + 1] = Len(r.s.heap) + 1]

RECURSIVE countingSort_count(_, _, _, _)
\* for (let i = 0; i < n; i++) { count[array[i].value - minVal]++; push }
\* yields the local state and count (count[d] is at position d + 1)
countingSort_count(s, count, minVal, i) ==
    IF ~(i < Len(s.array)) THEN [s |-> s, count |-> count]
    ELSE countingSort_count(
             Push(s, Plain(MapMark(s.array, s.heap, i, i, "comparing"),
                           Desc("Counting occurrences of {0}", <<Val(s, i)>>))),
             [count EXCEPT ![Val(s, i) - minVal + 1] = @ + 1], minVal, i + 1)

RECURSIVE Cumulate(_, _)
\* for (let i = 1; i < count.length; i++) count[i] += count[i - 1]
Cumulate(count, i) ==
    IF ~(i < Len(count)) THEN count
    ELSE Cumulate([count EXCEPT ![i + 1] = @ + count[i]], i + 1)

RECURSIVE countingSort_output(_, _, _)
\* for (let i = n - 1; i >= 0; i--) { output[count[value - minVal] - 1] = { ...array[i] };
\*                                    count[value - minVal]-- }
\* r holds the local state, count and output
countingSort_output(r, minVal, i) ==
    IF ~(i >= 0) THEN r
    ELSE LET d == Val(r.s, i) - minVal
             put == PutCopy(r, r.count[d + 1] - 1, r.s.heap[r.s.array[i + 1]])
         IN  countingSort_output([put EXCEPT !.count[d + 1] = @ - 1], minVal, i - 1)

RECURSIVE countingSort_place(_, _, _)
\* for (let i = 0; i < n; i++) { array[i] = output[i]; push }
countingSort_place(s, output, i) ==
    IF ~(i < Len(s.array)) THEN s
    ELSE LET placed == Assign(s, i, output[i + 1])
         IN  countingSort_place(
                 Push(placed, Plain(Spread(placed.array),
                                    Desc("Placing {0} in its final position", <<Val(placed, i)>>))),
                 output, i + 1)

\* On an empty array Math.max() is -Infinity and Math.min() is Infinity, so
\* range is -Infinity and new Array(range) throws a RangeError.
countingSortSteps(a, h) ==
    LET n == Len(a)
        started == Push(Locals(a, h),
                        Plain(Spread(a), Text("Starting Counting Sort - Non-comparison sort using frequency counting")))
        maxVal == MathMax(ValuesOf(started))
        minVal == MathMin(ValuesOf(started))
        range == maxVal - minVal + 1
        ranged == Push(started, Plain(Spread(a),
                                      Desc("Range determined: {0} to {1} ({2} values)",
                                           <<minVal, maxVal, range>>)))
        counted == countingSort_count(ranged, [d \in 1..range |-> 0], minVal, 0)
        built == countingSort_output([s |-> counted.s, count |-> Cumulate(counted.count, 1),
                                      output |-> NewArray(n)],
                                     minVal, n - 1)
    IN  IF n = 0 THEN [started EXCEPT !.thrown = "RangeError"]
        ELSE Complete(countingSort_place(built.s, built.output, 0),
                      "Counting Sort complete! Non-comparison sorting achieved linear time.")

countingSort ==
    /\ pc = "idle"
    /\ Call("countingSort", countingSortSteps(input, heap))

\* A slot of the array that holds undefined shows undefined in a snapshot.
Undefined == [undefined |-> TRUE]

\* [...array] of an array that may hold undefined
SpreadSparse(a) == [k \in 1..Len(a) |-> IF a[k] = 0 THEN Own(Undefined) ELSE Ref(a[k])]

\* array.map(el => ({...el, state: 'sorted'})) of an array that may hold
\* undefined: spreading undefined adds no field
MapSortedSparse(a, h) ==
    [k \in 1..Len(a) |->
        IF a[k] = 0 THEN Own([state |-> "sorted"])
        ELSE Own([h[a[k]] EXCEPT !.state = "sorted"])]

\* Math.floor(value / exp) % 10: the remainder has the sign of the dividend
Digit(value, exp) ==
    LET q == value \div exp IN IF q >= 0 THEN q % 10 ELSE -((-q) % 10)

RECURSIVE radixSort_count(_, _, _, _)
\* for (let i = 0; i < n; i++) { digit = Math.floor(array[i].value / exp) % 10; count[digit]++ }
\* Reading .value of undefined throws a TypeError.  count[digit]++ with a
\* negative digit sets the property count["-1"] to NaN and leaves the ten
\* counters alone.  yields the local state and count
radixSort_count(s, count, exp, i) ==
    IF ~(i < Len(s.array)) THEN [s |-> s, count |-> count]
    ELSE IF s.array[i + 1] = 0 THEN [s |-> [s EXCEPT !.thrown = "TypeError"], count |-> count]
    ELSE LET digit == Digit(Val(s, i), exp)
         IN  radixSort_count(s, IF digit >= 0 THEN [count EXCEPT ![digit + 1] = @ + 1] ELSE count,
                             exp, i + 1)

RECURSIVE radixSort_output(_, _, _)
\* for (let i = n - 1; i >= 0; i--) { output[count[digit] - 1] = { ...array[i] }; count[digit]-- }
\* With a negative digit count[digit] is NaN: output["NaN"] is set, no slot
\* of output is written.  r holds the local state, count and output
radixSort_output(r, exp, i) ==
    IF ~(i >= 0) THEN r
    ELSE LET digit == Digit(Val(r.s, i), exp)
             put == PutCopy(r, r.count[digit + 1] - 1, r.s.heap[r.s.array[i + 1]])
         IN  radixSort_output(IF digit >= 0 THEN [put EXCEPT !.count[digit + 1] = @ - 1] ELSE r,
                              exp, i - 1)

\* countingSortByDigit(exp); position is Math.log10(exp)
countingSortByDigit(s, exp, position) ==
    LET sorting ==
            Push(s, Plain(SpreadSparse(s.array),
                          Desc("Sorting by digit at position {0} (divider: {1})", <<position, exp>>)))
        counted == radixSort_count(sorting, [d \in 1..10 |-> 0], exp, 0)
        built == radixSort_output([s |-> counted.s, count |-> Cumulate(counted.count, 1),
                                   output |-> NewArray(Len(s.array))],
                                  exp, Len(s.array) - 1)
        copied == [built.s EXCEPT !.array = built.output]
    IN  IF counted.s.thrown # "" THEN counted.s
        ELSE Push(copied, Plain(SpreadSparse(copied.array),
                                Desc("Sorted by digit at position {0}", <<position>>)))

RECURSIVE radixSort_exp(_, _, _, _)
\* for (let exp = 1; Math.floor(maxVal / exp) > 0; exp *= 10) countingSortByDigit(exp)
radixSort_exp(s, maxVal, exp, position) ==
    IF s.thrown # "" \/ ~(maxVal \div exp > 0) THEN s
    ELSE radixSort_exp(countingSortByDigit(s, exp, position), maxVal, exp * 10, position + 1)

\* On an empty array getMax() is -Infinity and the loop is not entered.
radixSortSteps(a, h) ==
    LET started == Push(Locals(a, h),
                        Plain(Spread(a), Text("Starting Radix Sort - Sort by individual digits from least to most significant")))
        sorted == IF Len(a) = 0 THEN started
                  ELSE radixSort_exp(started, MathMax(ValuesOf(started)), 1, 0)
    IN  IF sorted.thrown # "" THEN sorted
        ELSE Push(sorted, Plain(MapSortedSparse(sorted.array, sorted.heap),
                                Text("Radix Sort complete! Sorted all digits from least to most significant.")))

radixSort ==
    /\ pc = "idle"
    /\ Call("radixSort", radixSortSteps(input, heap))

\* Math.floor(Math.sqrt(n))
FloorSqrt(n) == CHOOSE k \in 0..n : k * k <= n /\ n < (k + 1) * (k + 1)

\* The double r / c of two positive integers, as far as it differs from the
\* quotient: num / den is r / c scaled by a power of 2 into [1, 2), and rem
\* is what the long division of num by den leaves after the 53 significant
\* bits of a double, so that the double is the quotient itself when rem = 0,
\* above it (rounded up) when 2 * rem > den and below it otherwise.  No tie
\* (2 * rem = den) exists for integers of this size.
DoubleQuotient(r, c) ==
    LET up == CHOOSE e \in 0..30 : r * 2^e >= c /\ (e = 0 \/ r * 2^(e - 1) < c)
        down == CHOOSE e \in 0..30 : r * 2^up < c * 2^(e + 1) /\ (e = 0 \/ r * 2^up >= c * 2^e)
        num == r * 2^up
        den == c * 2^down
        p13 == 2^13 % den
        p26 == (p13 * p13) % den
        p52 == (p26 * p26) % den
    IN  [num |-> num, den |-> den, rem |-> ((num - den) * p52) % den]

\* Math.floor(d / (r / c)) for integers d >= 0, r > 0, c > 0, in double
\* arithmetic: the floor of d * c / r, except that a quotient that is an
\* integer k > 0 comes out as the double below k, and is floored to k - 1,
\* when r / c was rounded up by more than half the gap below k allows.
FloorQuotient(d, r, c) ==
    LET k == (d * c) \div r
        q == DoubleQuotient(r, c)
        above == CHOOSE p \in {2^e : e \in 0..30} : p >= k /\ (p = 1 \/ p \div 2 < k)
    IN  IF (d * c) % r # 0 \/ k = 0 \/ ~(2 * q.rem > q.den) THEN k
        ELSE IF 4 * (q.den - q.rem) * k <= q.num * above THEN k
        ELSE k - 1

\* (numerator / denominator).toFixed(2): the double rounded to hundredths, as
\* its integer part and its two decimals.  A quotient halfway between two
\* hundredths goes up when the double is the quotient or above it, and down
\* when the double is below it.
ToFixed2(numerator, denominator) ==
    LET q == DoubleQuotient(numerator, denominator)
        halfUp == (numerator * 200 + denominator) \div (2 * denominator)
        halfway == (numerator * 200 + denominator) % (2 * denominator) = 0
        hundredths == IF halfway /\ q.rem # 0 /\ ~(2 * q.rem > q.den) THEN halfUp - 1
                      ELSE halfUp
    IN  <<hundredths \div 100, hundredths % 100>>

RECURSIVE bucketSort_distribute(_, _, _, _, _)
\* for (let i = 0; i < n; i++) { buckets[bucketIndex].push({ ...array[i] }); push }
\* with bucketIndex = Math.min(Math.floor((value - minVal) / bucketSize), bucketCount - 1)
\* and bucketSize = width / bucketCount.  yields the local state and buckets
bucketSort_distribute(s, buckets, minVal, width, i) ==
    IF ~(i < Len(s.array)) THEN [s |-> s, buckets |-> buckets]
    ELSE LET bucketCount == Len(buckets)
             bucketIndex == Min(FloorQuotient(Val(s, i) - minVal, width, bucketCount), bucketCount - 1)
             copied == [s EXCEPT !.heap = Append(@, s.heap[s.array[i + 1]])]
         IN  bucketSort_distribute(
                 Push(copied, Plain(MapMark(s.array, s.heap, i, i, "comparing"),
                                    Desc("Placing {0} into bucket {1}", <<Val(s, i), bucketIndex>>))),
                 [buckets EXCEPT ![bucketIndex + 1] = Append(@, Len(s.heap) + 1)],
                 minVal, width, i + 1)

RECURSIVE bucketSort_while(_, _, _, _)
\* while (k >= 0 && bucket[k].value > key.value) { bucket[k + 1] = bucket[k]; k-- }
\* yields bucket and k
bucketSort_while(bucket, h, key, k) ==
    IF ~(k >= 0 /\ h[bucket[k + 1]].value > h[key].value) THEN [bucket |-> bucket, k |-> k]
    ELSE bucketSort_while([bucket EXCEPT ![k + 2] = bucket[k + 1]], h, key, k - 1)

RECURSIVE bucketSort_insertion(_, _, _)
\* for (let j = 1; j < bucket.length; j++) { key = bucket[j]; shift; bucket[k + 1] = key }
bucketSort_insertion(bucket, h, j) ==
    IF ~(j < Len(bucket)) THEN bucket
    ELSE LET shifted == bucketSort_while(bucket, h, bucket[j + 1], j - 1)
         IN  bucketSort_insertion([shifted.bucket EXCEPT ![shifted.k + 2] = bucket[j + 1]],
                                  h, j + 1)

RECURSIVE bucketSort_place(_, _, _, _)
\* for (let j = 0; j < bucket.length; j++) { array[index] = bucket[j]; index++ }
\* yields the local state and index
bucketSort_place(s, bucket, j, index) ==
    IF ~(j < Len(bucket)) THEN [s |-> s, index |-> index]
    ELSE bucketSort_place(Assign(s, index, bucket[j + 1]), bucket, j + 1, index + 1)

RECURSIVE bucketSort_collect(_, _, _, _)
\* for (let i = 0; i < bucketCount; i++) if (buckets[i].length > 0)
\*     { sort the bucket; array[index++] = each of its elements; push }
bucketSort_collect(s, buckets, i, index) ==
    IF ~(i < Len(buckets)) THEN s
    ELSE IF ~(Len(buckets[i + 1]) > 0) THEN bucketSort_collect(s, buckets, i + 1, index)
    ELSE LET bucket == bucketSort_insertion(buckets[i + 1], s.heap, 1)
             placed == bucketSort_place(s, bucket, 0, index)
         IN  bucketSort_collect(
                 Push(placed.s, Plain(Spread(placed.s.array),
                                      Desc("Sorted and placed bucket {0} back into array", <<i>>))),
                 buckets, i + 1, placed.index)

bucketSortSteps(a, h) ==
    LET n == Len(a)
        started == Push(Locals(a, h),
                        Plain(Spread(a), Text("Starting Bucket Sort - Distribute elements into buckets then sort each bucket")))
        maxVal == MathMax(ValuesOf(started))
        minVal == MathMin(ValuesOf(started))
        bucketCount == FloorSqrt(n)
        creating == Push(started, Plain(Spread(a),
                                        Desc("Creating {0} buckets with size {1}",
                                             <<bucketCount, ToFixed2(maxVal - minVal + 1, bucketCount)>>)))
        distributed == bucketSort_distribute(creating, [b \in 1..bucketCount |-> <<>>],
                                             minVal, maxVal - minVal + 1, 0)
    IN  IF n <= 1
        THEN Complete(Locals(a, h), "Bucket Sort complete! Array already sorted (1 or fewer elements).")
        ELSE Complete(bucketSort_collect(distributed.s, distributed.buckets, 0, 0),
                      "Bucket Sort complete! All buckets sorted and concatenated.")

bucketSort ==
    /\ pc = "idle"
    /\ Call("bucketSort", bucketSortSteps(input, heap))

\* ------------------------------------------------------------- NoveltySorts
\* Descriptions that start with an emoji in the source are kept without it.

RECURSIVE gnomeSort_while(_, _)
\* while (index < n) { step forward, or swap backward and step back }
gnomeSort_while(s, index) ==
    IF ~(index < Len(s.array)) THEN s
    ELSE IF index = 0 THEN gnomeSort_while(s, index + 1)
    ELSE IF Val(s, index) >= Val(s, index - 1) THEN gnomeSort_while(s, index + 1)
    ELSE LET swapping ==
                 Push(s, Plain(MapMark(s.array, s.heap, index, index - 1, "swapping"),
                               Desc("Swapping {0} and {1}", <<Val(s, index), Val(s, index - 1)>>)))
             swapped == Swapped(swapping, index, index - 1)
         IN  gnomeSort_while(
                 Push(swapped, Plain(Spread(swapped.array),
                                     Desc("Moved element backward, now checking position {0}",
                                          <<index - 1>>))),
                 index - 1)

gnomeSortSteps(a, h) ==
    LET started == Push(Locals(a, h),
                        Plain(Spread(a), Text("Starting Gnome Sort - Like insertion sort but moves element to beginning by swapping")))
    IN  Complete(gnomeSort_while(started, 0), "Gnome Sort complete! All elements are sorted.")

gnomeSort ==
    /\ pc = "idle"
    /\ Call("gnomeSort", gnomeSortSteps(input, heap))

RECURSIVE flip_while(_, _, _)
\* while (left < k) { swap array[left] and array[k]; left++; k-- }
flip_while(s, left, k) ==
    IF ~(left < k) THEN s ELSE flip_while(Swapped(s, left, k), left + 1, k - 1)

\* pancakeSort's flip(k)
flip(s, k) ==
    LET flipping ==
            Push(s, Plain(MapSet(s.array, s.heap, 0..k, "swapping"),
                          Desc("Flipping first {0} elements", <<k + 1>>)))
    IN  Push(flip_while(flipping, 0, k),
             Plain(Spread(flip_while(flipping, 0, k).array), Text("Flip completed")))

RECURSIVE findMax_i(_, _, _, _)
\* for (let i = 0; i < n; i++) if (array[i].value > array[maxIdx].value) maxIdx = i
findMax_i(s, n, maxIdx, i) ==
    IF ~(i < n) THEN maxIdx
    ELSE findMax_i(s, n, IF Val(s, i) > Val(s, maxIdx) THEN i ELSE maxIdx, i + 1)

\* pancakeSort's findMax(n)
findMax(s, n) == findMax_i(s, n, 0, 0)

RECURSIVE pancakeSort_currSize(_, _)
\* for (let currSize = n; currSize > 1; currSize--)
\*     { find the maximum; push; flip it to the end; array[currSize - 1].state = 'sorted' }
pancakeSort_currSize(s, currSize) ==
    IF ~(currSize > 1) THEN s
    ELSE LET maxIdx == findMax(s, currSize)
             found ==
                 Push(s, Plain(MapMark(s.array, s.heap, maxIdx, maxIdx, "comparing"),
                               Desc("Found maximum {0} at position {1}", <<Val(s, maxIdx), maxIdx>>)))
             flipped ==
                 IF maxIdx # currSize - 1
                 THEN flip(IF maxIdx # 0 THEN flip(found, maxIdx) ELSE found, currSize - 1)
                 ELSE found
         IN  pancakeSort_currSize(MarkSorted(flipped, currSize - 1), currSize - 1)

pancakeSortSteps(a, h) ==
    LET started == Push(Locals(a, h),
                        Plain(Spread(a), Text("Starting Pancake Sort - Sort by flipping prefixes")))
        marked == MarkSorted(pancakeSort_currSize(started, Len(a)), 0)
    IN  IF marked.thrown # "" THEN marked
        ELSE Push(marked, Plain(Spread(marked.array),
                                Text("Pancake Sort complete! All elements are sorted.")))

pancakeSort ==
    /\ pc = "idle"
    /\ Call("pancakeSort", pancakeSortSteps(input, heap))

\* isSorted(): no element is smaller than the one before it
isSorted(a, h) == \A i \in 1..(Len(a) - 1) : ~(h[a[i + 1]].value < h[a[i]].value)

miracleSortSteps(a, h) ==
    LET started == Push(Locals(a, h),
                        Plain(Spread(a), Text("Starting Miracle Sort - Check if array is sorted, if not, wait for a miracle!")))
        waiting == Push(started, Plain(Spread(a), Text("Array is not sorted. Waiting for a miracle...")))
        still == Push(waiting, Plain(Spread(a), Text("Still waiting for a miracle...")))
    IN  IF isSorted(a, h)
        THEN Complete(started, "Miracle! The array was already sorted!")
        ELSE Push(still, Plain(Spread(a), Text("Miracle did not occur. Array remains unsorted. Try again later!")))

miracleSort ==
    /\ pc = "idle"
    /\ Call("miracleSort", miracleSortSteps(input, heap))

RECURSIVE SortByValue_insert(_, _, _, _)
\* The position (from the end) at which o goes into the sorted prefix: after
\* every element whose value is not larger.
SortByValue_insert(sorted, h, o, k) ==
    IF k >= 1 /\ h[sorted[k]].value > h[o].value
    THEN SortByValue_insert(sorted, h, o, k - 1)
    ELSE SubSeq(sorted, 1, k) \o <<o>> \o SubSeq(sorted, k + 1, Len(sorted))

RECURSIVE SortByValue_from(_, _, _, _)
SortByValue_from(a, h, sorted, k) ==
    IF k > Len(a) THEN sorted
    ELSE SortByValue_from(a, h, SortByValue_insert(sorted, h, a[k], Len(sorted)), k + 1)

\* [...array].sort((a, b) => a.value - b.value): Array.prototype.sort is
\* stable, elements of equal value keep their order.
SortByValue(a, h) == SortByValue_from(a, h, <<>>, 1)

\* The id `empty-${k}` of a padding element; the ids of the caller's
\* elements are positive.
EmptyId(k) == 0 - (k + 1)

\* const displayArray = [...result]; while (displayArray.length < n)
\*     displayArray.push({ value: 0, id: `empty-${displayArray.length}`, state: 'default' })
DisplayArray(result, n) ==
    [k \in 1..n |-> IF k <= Len(result) THEN Ref(result[k])
                    ELSE Own(ArrayElement(0, EmptyId(k - 1), "default"))]

RECURSIVE sleepSort_i(_, _, _)
\* for (let i = 0; i < sortedElements.length; i++) { result.push(sortedElements[i]); push }
sleepSort_i(s, sortedElements, i) ==
    IF ~(i < Len(sortedElements)) THEN s
    ELSE sleepSort_i(
             Push(s, Plain(DisplayArray(SubSeq(sortedElements, 1, i + 1), Len(s.array)),
                           Desc("{0} woke up after sleeping for {1}ms!",
                                <<s.heap[sortedElements[i + 1]].value,
                                  s.heap[sortedElements[i + 1]].value>>))),
             sortedElements, i + 1)

\* for (let i = 0; i < from.length; i++) array[i] = { ...from[i], state: 'sorted' }
\* every element of the local array becomes a new object
ReplaceSorted(s, from) ==
    [s EXCEPT !.heap = @ \o [k \in 1..Len(from) |-> [s.heap[from[k]] EXCEPT !.state = "sorted"]],
              !.array = [k \in 1..Len(from) |-> Len(s.heap) + k]]

sleepSortSteps(a, h) ==
    LET started == Push(Locals(a, h),
                        Plain(Spread(a), Text("Starting Sleep Sort - Each element sleeps for time proportional to its value!")))
        sortedElements == SortByValue(a, h)
        replaced == ReplaceSorted(sleepSort_i(started, sortedElements, 0), sortedElements)
    IN  Push(replaced, Plain(Spread(replaced.array),
                             Text("Sleep Sort complete! All elements have awakened in perfect order!")))

sleepSort ==
    /\ pc = "idle"
    /\ Call("sleepSort", sleepSortSteps(input, heap))

quantumBogoSortSteps(a, h) ==
    LET started == Push(Locals(a, h),
                        Plain(Spread(a), Text("Starting Quantum Bogo Sort - Using quantum superposition to check all permutations!")))
        creating == Push(started, Plain(Spread(a), Text("Creating quantum superposition of all possible permutations...")))
        measuring == Push(creating, Plain(Spread(a), Text("Measuring quantum state...")))
        collapsed == ReplaceSorted(measuring, SortByValue(a, h))
    IN  IF isSorted(a, h)
        THEN Complete(started, "Quantum measurement successful! Array collapsed into sorted state!")
        ELSE Push(collapsed, Plain(Spread(collapsed.array),
                                   Text("Quantum Bogo Sort complete! Wave function collapsed into the sorted state!")))

quantumBogoSort ==
    /\ pc = "idle"
    /\ Call("quantumBogoSort", quantumBogoSortSteps(input, heap))

\* The shuffle limit of bogoSort's loop: `attempts < 50`, `attempts >= 50`.
AttemptLimit == 50

\* The outcomes of Math.floor(Math.random() * (i + 1)) for i = n - 1 .. 1:
\* each j is one of 0..i.
RandomChoices(n) == {js \in [1..(n - 1) -> 0..(n - 1)] : \A i \in 1..(n - 1) : js[i] <= i}

RECURSIVE shuffle_i(_, _, _)
\* for (let i = array.length - 1; i > 0; i--) { j = random; swap array[i] and array[j] }
shuffle_i(a, js, i) ==
    IF ~(i > 0) THEN a ELSE shuffle_i(Exchange(a, i, js[i]), js, i - 1)

\* bogoSort's shuffle() when the random numbers come out as js: the local
\* array and steps after it
shuffle(a, stps, js) ==
    LET shuffled == shuffle_i(a, js, Len(a) - 1)
    IN  [array |-> shuffled,
         steps |-> stps \o << Plain(Spread(a), Text("Randomly shuffling array...")),
                              Plain(Spread(shuffled), Text("Shuffle complete, checking if sorted...")) >>]

\* Variants of bogoSort's loop and end with one fault each.
\* bogoSort's loop giving up one shuffle late
bogoSort_attempt_oneMore ==
    /\ pc = "loop"
    /\ algorithm = "bogoSort"
    /\ ~isSorted(array, heap) /\ attempts <= AttemptLimit
    /\ \E js \in RandomChoices(Len(array)) :
           LET shuffled == shuffle(array, steps, js)
           IN  /\ array' = shuffled.array
               /\ attempts' = attempts + 1
               /\ IF attempts + 1 > AttemptLimit
                  THEN /\ steps' = Append(shuffled.steps,
                                      Plain(Spread(shuffled.array),
                                            Text("Bogo Sort stopped after 50 attempts to prevent infinite loop!")))
                       /\ pc' = "exit"
                  ELSE /\ steps' = shuffled.steps
                       /\ pc' = "loop"
    /\ UNCHANGED <<heap, input, algorithm, thrown, stepDescription, hostVars>>

\* bogoSort's end reporting completion without looking at the array
bogoSort_return_alwaysComplete ==
    /\ algorithm = "bogoSort"
    /\ \/ pc = "exit"
       \/ pc = "loop" /\ ~(~isSorted(array, heap) /\ attempts < AttemptLimit)
    /\ steps' = Append(steps, Plain(MapSorted(array, heap),
                                    Desc("Bogo Sort complete after {0} attempts! Pure luck!",
                                         <<attempts>>)))
    /\ pc' = "returned"
    /\ UNCHANGED <<array, heap, input, algorithm, attempts, thrown, stepDescription, hostVars>>

\* bogoSort(arr) up to its loop
bogoSort ==
    /\ pc = "idle"
    /\ Len(input) <= BogoLen
    /\ algorithm' = "bogoSort"
    /\ array' = input
    /\ steps' = << Plain(Spread(input), Text("Starting Bogo Sort - Randomly shuffle until sorted (THIS IS INEFFICIENT!)")) >>
    /\ attempts' = 0
    /\ thrown' = ""
    /\ pc' = "loop"
    /\ UNCHANGED <<heap, input, stepDescription, hostVars>>

\* One pass of while (!isSorted() && attempts < 50) { shuffle(); attempts++;
\*                    if (attempts >= 50) { push; break } }
bogoSort_attempt ==
    /\ pc = "loop"
    /\ algorithm = "bogoSort"
    /\ ~isSorted(array, heap) /\ attempts < AttemptLimit
    /\ \E js \in RandomChoices(Len(array)) :
           LET shuffled == shuffle(array, steps, js)
           IN  /\ array' = shuffled.array
               /\ attempts' = attempts + 1
               /\ IF attempts + 1 >= AttemptLimit
                  THEN /\ steps' = Append(shuffled.steps,
                                      Plain(Spread(shuffled.array),
                                            Text("Bogo Sort stopped after 50 attempts to prevent infinite loop!")))
                       /\ pc' = "exit"
                  ELSE /\ steps' = shuffled.steps
                       /\ pc' = "loop"
    /\ UNCHANGED <<heap, input, algorithm, thrown, stepDescription, hostVars>>

\* The loop is left (its condition is false, or by the break):
\* if (isSorted()) push the complete Step; return steps
bogoSort_return ==
    /\ algorithm = "bogoSort"
    /\ \/ pc = "exit"
       \/ pc = "loop" /\ ~(~isSorted(array, heap) /\ attempts < AttemptLimit)
    /\ steps' = IF isSorted(array, heap)
                THEN Append(steps, Plain(MapSorted(array, heap),
                                         Desc("Bogo Sort complete after {0} attempts! Pure luck!",
                                              <<attempts>>)))
                ELSE steps
    /\ pc' = "returned"
    /\ UNCHANGED <<array, heap, input, algorithm, attempts, thrown, stepDescription, hostVars>>

\* ------------------------------------- AlgorithmSelector.tsx: SortingAlgorithms
\* AlgorithmSelector.tsx exports a second class SortingAlgorithms with twelve
\* of the built-ins.  Ten of them (selectionSort, insertionSort, quickSort,
\* mergeSort, heapSort, cocktailSort, combSort, gnomeSort, pancakeSort,
\* bogoSort) have the text of the methods above and are the definitions
\* above; its bubbleSort and its shellSort record other Steps.

\* SortingAlgorithms.bubbleSort of AlgorithmSelector.tsx: SimpleSorts.bubbleSort
\* with the Step after an exchange described as
\* `Swapped! ${array[j].value} is now before ${array[j + 1].value}`
AlgorithmSelector_bubbleSortSteps(a, h) ==
    LET RECURSIVE inner(_, _, _)
        \* for (let j = 0; j < n - i - 1; j++) { compare; swap if greater }
        inner(s, i, j) ==
            IF ~(j < Len(s.array) - i - 1) THEN s
            ELSE LET compared ==
                         Push(s, SortingStep(MapMark(s.array, s.heap, j, j + 1, "comparing"),
                                             <<j, j + 1>>, <<>>, <<>>,
                                             Desc("Comparing elements at positions {0} and {1}: {2} vs {3}",
                                                  <<j, j + 1, Val(s, j), Val(s, j + 1)>>)))
                     swapping ==
                         Push(compared, SortingStep(MapMark(s.array, s.heap, j, j + 1, "swapping"),
                                                    <<>>, <<j, j + 1>>, <<>>,
                                                    Desc("Swapping {0} and {1}",
                                                         <<Val(s, j), Val(s, j + 1)>>)))
                     swapped == Swapped(swapping, j, j + 1)
                     after ==
                         Push(swapped, Plain(Spread(swapped.array),
                                             Desc("Swapped! {0} is now before {1}",
                                                  <<Val(swapped, j), Val(swapped, j + 1)>>)))
                 IN  inner(IF Val(s, j) > Val(s, j + 1) THEN after ELSE compared, i, j + 1)
        RECURSIVE outer(_, _)
        \* for (let i = 0; i < n - 1; i++) { inner loop; array[n - 1 - i].state = 'sorted'; push }
        outer(s, i) ==
            LET n == Len(s.array) IN
            IF ~(i < n - 1) THEN s
            ELSE LET marked == MarkSorted(inner(s, i, 0), n - 1 - i)
                 IN  outer(
                         Push(marked, SortingStep(Spread(marked.array), <<>>, <<>>, <<n - 1 - i>>,
                                  Desc("Element at position {0} ({1}) is now in its final sorted position",
                                       <<n - 1 - i, Val(marked, n - 1 - i)>>))),
                         i + 1)
        started == Push(Locals(a, h),
                        Plain(Spread(a), Text("Starting Bubble Sort - Compare adjacent elements and swap if needed")))
        marked == MarkSorted(outer(started, 0), 0)
    IN  IF marked.thrown # "" THEN marked
        ELSE Push(marked, Plain(Spread(marked.array),
                                Text("Bubble Sort complete! All elements are sorted.")))

\* A call of that bubbleSort; the method called is bubbleSort, whichever class
\* the caller took it from.
AlgorithmSelector_bubbleSort ==
    /\ pc = "idle"
    /\ Call("bubbleSort", AlgorithmSelector_bubbleSortSteps(input, heap))

\* SortingAlgorithms.shellSort of AlgorithmSelector.tsx: ImprovedSorts.shellSort
\* with one more Step after `array[j] = temp`,
\* { array: [...array], description: `Placed ${temp.value} at position ${j}` };
\* its while loop has the text of shellSort_while
AlgorithmSelector_shellSortSteps(a, h) ==
    LET RECURSIVE pass(_, _, _)
        \* for (let i = gap; i < n; i++) { temp = array[i]; push; shift by gap; array[j] = temp; push }
        pass(s, gap, i) ==
            IF ~(i < Len(s.array)) THEN s
            ELSE LET temp == s.array[i + 1]
                     comparing ==
                         Push(s, Plain(MapMark(s.array, s.heap, i, i, "comparing"),
                                       Desc("Comparing elements {0} positions apart", <<gap>>)))
                     shifted == shellSort_while(comparing, temp, i, gap)
                     placed == Assign(shifted.s, shifted.j, temp)
                 IN  pass(Push(placed, Plain(Spread(placed.array),
                                             Desc("Placed {0} at position {1}",
                                                  <<placed.heap[temp].value, shifted.j>>))),
                          gap, i + 1)
        RECURSIVE gaps(_, _)
        \* for (let gap = Math.floor(n / 2); gap > 0; gap = Math.floor(gap / 2)) { push; pass }
        gaps(s, gap) ==
            IF ~(gap > 0) THEN s
            ELSE gaps(pass(Push(s, Plain(Spread(s.array), Desc("Using gap size: {0}", <<gap>>))),
                           gap, gap),
                      gap \div 2)
        started == Push(Locals(a, h),
                        Plain(Spread(a), Text("Starting Shell Sort - Insertion sort with gap sequence")))
    IN  Complete(gaps(started, Len(a) \div 2),
                 "Shell Sort complete! All elements are sorted.")

\* A call of that shellSort
AlgorithmSelector_shellSort ==
    /\ pc = "idle"
    /\ Call("shellSort", AlgorithmSelector_shellSortSteps(input, heap))

\* ------------------------------------------------------------ specification
BuiltinInit ==
    \E a \in SortInputs :
        /\ heap = a
        /\ input = [k \in 1..Len(a) |-> k]
        /\ array = <<>>
        /\ steps = <<>>
        /\ stepDescription = ""
        /\ thrown = ""
        /\ algorithm = ""
        /\ pc = "idle"
        /\ attempts = 0
        /\ NoRun

BuiltinNext ==
    \/ bubbleSort
    \/ selectionSort
    \/ insertionSort
    \/ quickSort
    \/ mergeSort
    \/ heapSort
    \/ timSort
    \/ shellSort
    \/ combSort
    \/ cocktailSort
    \/ countingSort
    \/ radixSort
    \/ bucketSort
    \/ gnomeSort
    \/ pancakeSort
    \/ miracleSort
    \/ sleepSort
    \/ quantumBogoSort
    \/ bogoSort
    \/ bogoSort_attempt
    \/ bogoSort_return
    \/ AlgorithmSelector_bubbleSort
    \/ AlgorithmSelector_shellSort

\* A call that is inside bogoSort's loop keeps running: the loop is
\* synchronous code and nothing else is scheduled before it returns.
Builtins ==
    /\ BuiltinInit
    /\ [][BuiltinNext]_vars
    /\ WF_vars(bogoSort_attempt)
    /\ WF_vars(bogoSort_return)

\* A run is either caller code working on an InstrumentedArray, whose
\* constructor has recorded the first Step, or a call of a built-in.
Instrumented == algorithm = "" /\ steps # <<>>

ProgramNext ==
    \/ Instrumented /\ Next
    \/ ~Instrumented /\ BuiltinNext

\* Every run of the program: of either kind.
Program ==
    /\ Init \/ BuiltinInit
    /\ [][ProgramNext]_vars
    /\ WF_vars(bogoSort_attempt)
    /\ WF_vars(bogoSort_return)

\* --------------------------------------------------------------------- host
\* CodeEditor holds the caller's code and runs it through its `onRunCode`
\* prop.
Invocation(op, a, b) == [op |-> op, a |-> a, b |-> b]

\* The calls a typed text is built from; both are out of bounds for an
\* array of fewer than two elements.
Invocations == { Invocation("compare", 0, 1), Invocation("swap", 0, 1) }

\* A typed text makes at most MaxCalls calls.
MaxCalls == 2

\* createInstrumentedTemplate(): the text of customSort(instrumentedArray),
\* a bubble sort through compare, swap and markSorted
createInstrumentedTemplate == [text |-> "visual", calls |-> <<>>, ends |-> "return"]

\* createSimpleTemplate(): the text of customSort(arr), a bubble sort of a
\* plain array through arr[j]
createSimpleTemplate == [text |-> "simple", calls |-> <<>>, ends |-> "return"]

\* The texts the editor can hold.
CodeTexts ==
    { [text |-> "typed", calls |-> cs, ends |-> e] :
        cs \in UNION { [1..n -> Invocations] : n \in 0..MaxCalls },
        e \in {"return", "throw"} }
      \cup {initialCode, createInstrumentedTemplate, createSimpleTemplate}

RECURSIVE customSort_j(_, _, _, _)
\* the instrumented template's inner loop over the values it sorts:
\* for (let j = 0; j < n - i - 1; j++)
\*     if (instrumentedArray.compare(j, j + 1) > 0) instrumentedArray.swap(j, j + 1)
\* yields the values and the calls made
customSort_j(values, calls, i, j) ==
    IF ~(j < Len(values) - i - 1) THEN [values |-> values, calls |-> calls]
    ELSE LET compared == Append(calls, Invocation("compare", j, j + 1))
         IN  IF values[j + 1] - values[j + 2] > 0
             THEN customSort_j([values EXCEPT ![j + 1] = values[j + 2],
                                              ![j + 2] = values[j + 1]],
                               Append(compared, Invocation("swap", j, j + 1)), i, j + 1)
             ELSE customSort_j(values, compared, i, j + 1)

RECURSIVE customSort_i(_, _, _)
\* the instrumented template's outer loop:
\* for (let i = 0; i < n - 1; i++) { inner loop; instrumentedArray.markSorted(n - 1 - i) }
\* yields the calls made
customSort_i(values, calls, i) ==
    LET n == Len(values) IN
    IF ~(i < n - 1) THEN calls
    ELSE LET inner == customSort_j(values, calls, i, 0)
         IN  customSort_i(inner.values,
                          Append(inner.calls, Invocation("markSorted", n - 1 - i, n - 1 - i)),
                          i + 1)

\* The calls a text makes on the InstrumentedArray it is run against, whose
\* values (by initial position) are `values`: a typed text makes its calls;
\* the instrumented template reads length, runs its loops and ends with
\* markSorted(0); the simple template reads length and finds no element
\* under arr[j], so that it compares and exchanges nothing.
CallsOf(text, values) ==
    IF text.text = "visual"
    THEN Append(customSort_i(values, << Invocation("length", 0, 0) >>, 0),
                Invocation("markSorted", 0, 0))
    ELSE IF text.text = "simple" THEN << Invocation("length", 0, 0) >>
    ELSE text.calls

\* The values of the InstrumentedArray of the run by initial position: the
\* constructor puts element k at address k, and no call of a text writes a
\* value.
RunValues == [o \in 1..Len(heap) |-> heap[o].value]

\* const [code, setCode] = useState(initialCode), const [isRunning, ...] =
\* useState(false), const [useVisualization, ...] = useState(true), before
\* Run is pressed; no InstrumentedArray exists yet
HostInit ==
    /\ NoCall
    /\ isRunning = FALSE
    /\ code \in CodeTexts
    /\ useVisualization = TRUE
    /\ run = "idle"
    /\ ran = [code |-> initialCode, useVisualization |-> TRUE]
    /\ ip = 0
    /\ array = <<>>
    /\ heap = <<>>
    /\ steps = <<>>
    /\ stepDescription = ""
    /\ thrown = ""

\* the textarea's onChange: setCode(e.target.value)
onChange(value) ==
    /\ code' = value
    /\ UNCHANGED <<isRunning, useVisualization, run, ran, ip, callVars>>
    /\ UNCHANGED <<array, heap, steps, stepDescription, thrown>>

\* insertVisualTemplate: setCode(createInstrumentedTemplate()); setUseVisualization(true)
insertVisualTemplate ==
    /\ code' = createInstrumentedTemplate
    /\ useVisualization' = TRUE
    /\ UNCHANGED <<isRunning, run, ran, ip, callVars>>
    /\ UNCHANGED <<array, heap, steps, stepDescription, thrown>>

\* insertSimpleTemplate: setCode(createSimpleTemplate()); setUseVisualization(false)
insertSimpleTemplate ==
    /\ code' = createSimpleTemplate
    /\ useVisualization' = FALSE
    /\ UNCHANGED <<isRunning, run, ran, ip, callVars>>
    /\ UNCHANGED <<array, heap, steps, stepDescription, thrown>>

\* the Visualize checkbox's onChange: setUseVisualization(e.target.checked)
setUseVisualization(checked) ==
    /\ useVisualization' = checked
    /\ UNCHANGED <<isRunning, code, run, ran, ip, callVars>>
    /\ UNCHANGED <<array, heap, steps, stepDescription, thrown>>

\* handleRunCode up to `await onRunCode(...)`:
\* if (!onRunCode) return; setIsRunning(true);
\* try { await onRunCode(code, withVisualization ?? useVisualization)
\* withVisualization is <<>> when the argument is left out.  The Run button
\* calls it, and is disabled while isRunning and while the code is blank.
handleRunCode(onRunCodeGiven, withVisualization) ==
    /\ run \in {"idle", "settled"}
    /\ ~isRunning
    /\ code # initialCode
    /\ IF ~onRunCodeGiven
       THEN UNCHANGED vars
       ELSE /\ isRunning' = TRUE
            /\ run' = "called"
            /\ ran' = [code |-> code,
                       useVisualization |-> IF withVisualization = <<>> THEN useVisualization
                                            ELSE withVisualization[1]]
            /\ UNCHANGED <<code, useVisualization, ip, callVars>>
            /\ UNCHANGED <<array, heap, steps, stepDescription, thrown>>

\* new InstrumentedArray(initialArray), as a step of the run
Construct(initialArray) ==
    LET n == Len(initialArray) IN
    /\ heap' = [o \in 1..n |-> [initialArray[o] EXCEPT !.state = "default"]]
    /\ array' = [k \in 1..n |-> k]
    /\ steps' = << SortingStep(Spread([k \in 1..n |-> k]), <<>>, <<>>, <<>>,
                               Text("Starting custom algorithm")) >>
    /\ stepDescription' = ""
    /\ thrown' = ""

\* onRunCode starts the code it was handed.  In instrumented mode the run
\* constructs its own InstrumentedArray over the host's array; in
\* uninstrumented mode the code gets a plain array and no InstrumentedArray
\* is made.
onRunCode ==
    /\ run = "called"
    /\ IF ran.useVisualization
       THEN \E initialArray \in InputArrays : Construct(initialArray)
       ELSE UNCHANGED <<array, heap, steps, stepDescription, thrown>>
    /\ run' = "running"
    /\ ip' = 0
    /\ UNCHANGED <<isRunning, code, useVisualization, ran, callVars>>

\* The running code makes its next call on the InstrumentedArray.
callerCalls ==
    /\ run = "running"
    /\ ran.useVisualization
    /\ thrown = ""
    /\ ip < Len(CallsOf(ran.code, RunValues))
    /\ LET c == CallsOf(ran.code, RunValues)[ip + 1] IN
           \/ c.op = "length" /\ length
           \/ c.op = "compare" /\ compare(c.a, c.b)
           \/ c.op = "swap" /\ swap(c.a, c.b)
           \/ c.op = "markSorted" /\ markSorted(c.a)
    /\ ip' = ip + 1
    /\ UNCHANGED <<isRunning, code, useVisualization, run, ran>>

\* The running code ends and onRunCode settles: it rejects with the error
\* the code let escape, or it is fulfilled.  Against an InstrumentedArray
\* the code has failed when its last call threw, or when it has made its
\* calls and throws itself.  With a plain array the simple template
\* returns; a call of an InstrumentedArray operation is a TypeError (the
\* array has no such method), which the instrumented template and every
\* typed text that makes a call run into.
callerEnds ==
    /\ run = "running"
    /\ ran.useVisualization => (thrown # "" \/ ip = Len(CallsOf(ran.code, RunValues)))
    /\ run' = IF ran.useVisualization
              THEN IF thrown # "" \/ ran.code.ends = "throw" THEN "rejected" ELSE "fulfilled"
              ELSE IF ran.code.text = "visual" \/ Len(ran.code.calls) > 0
                      \/ ran.code.ends = "throw"
                   THEN "rejected" ELSE "fulfilled"
    /\ UNCHANGED <<isRunning, code, useVisualization, ran, ip, callVars>>
    /\ UNCHANGED <<array, heap, steps, stepDescription, thrown>>

\* handleRunCode without catch and finally: setIsRunning(false) follows the
\* await inside the try
handleRunCode_settle_noFinally ==
    /\ run \in {"fulfilled", "rejected"}
    /\ isRunning' = (run = "rejected")
    /\ run' = IF run = "rejected" THEN "escaped" ELSE "settled"
    /\ UNCHANGED <<code, useVisualization, ran, ip, callVars>>
    /\ UNCHANGED <<array, heap, steps, stepDescription, thrown>>

\* handleRunCode after the await:
\* } catch (error) { console.error(...) } finally { setIsRunning(false) }
handleRunCode_settle ==
    /\ run \in {"fulfilled", "rejected"}
    /\ isRunning' = FALSE
    /\ run' = "settled"
    /\ UNCHANGED <<code, useVisualization, ran, ip, callVars>>
    /\ UNCHANGED <<array, heap, steps, stepDescription, thrown>>

HostNext ==
    \/ \E value \in CodeTexts : onChange(value)
    \/ insertVisualTemplate
    \/ insertSimpleTemplate
    \/ \E checked \in BOOLEAN : setUseVisualization(checked)
    \/ \E onRunCodeGiven \in BOOLEAN, withVisualization \in {<<>>, <<TRUE>>, <<FALSE>>} :
           handleRunCode(onRunCodeGiven, withVisualization)
    \/ onRunCode
    \/ callerCalls
    \/ callerEnds
    \/ handleRunCode_settle

Host == HostInit /\ [][HostNext]_vars

\* ------------------------------------------------------- reading the trace
\* Step k of the trace as a consumer reads it now.
View(k) == StepView(steps[k], heap)

\* The Steps a transition appended, as positions of steps'.
Appended == (Len(steps) + 1)..Len(steps')

Sign(x) == IF x < 0 THEN -1 ELSE IF x = 0 THEN 0 ELSE 1

Positions == 0..(Len(array) - 1)

\* ---------------------------------------------------------------------- C1
\* C1 (as claimed): once a Step is in the trace, what it shows never changes:
\* every later transition leaves the values and states read at each position
\* of every earlier Step as they were.
C1_StepsNeverChange ==
    [][\A k \in 1..Len(steps) :
          /\ k <= Len(steps')
          /\ StepView(steps'[k], heap') = StepView(steps[k], heap)]_vars

\* ---------------------------------------------------------------------- C2
\* C2: swap(i, j) with valid indices.  When i = j it records nothing and
\* changes nothing.  When i # j it records exactly two Steps behind the ones
\* already there: a pre-swap Step with swapIndices = [i, j] that shows the old
\* values with positions i and j in state swapping, then a post-swap Step that
\* shows the values exchanged; afterwards get(i) and get(j) return each
\* other's previous values and every other position returns what it did.
C2_Swap ==
    [][\A i, j \in Positions :
          swap(i, j) =>
             IF i = j
             THEN UNCHANGED <<array, heap, steps, stepDescription>>
             ELSE /\ Len(steps') = Len(steps) + 2
                  /\ SubSeq(steps', 1, Len(steps)) = steps
                  /\ LET pre == StepView(steps'[Len(steps) + 1], heap')
                         post == StepView(steps'[Len(steps) + 2], heap')
                     IN /\ pre.swapIndices = <<i, j>>
                        /\ pre.array[i + 1].state = "swapping"
                        /\ pre.array[j + 1].state = "swapping"
                        /\ \A p \in Positions : pre.array[p + 1].value = getResult(p)
                        /\ post.array[i + 1].value = getResult(j)
                        /\ post.array[j + 1].value = getResult(i)
                        /\ \A p \in Positions \ {i, j} :
                              post.array[p + 1].value = getResult(p)
                  /\ getResult(i)' = getResult(j)
                  /\ getResult(j)' = getResult(i)
                  /\ \A p \in Positions \ {i, j} : getResult(p)' = getResult(p)]_vars

\* A swap of two different positions holding different values has just been
\* recorded in an array that has a third position.
C2_Witness ==
    /\ Len(array) = 3
    /\ Len(steps) >= 3
    /\ steps[Len(steps) - 1].swapIndices = <<0, 2>>
    /\ getResult(0) # getResult(2)

\* ---------------------------------------------------------------------- C3
\* C3: compare(i, j) with valid indices records exactly one Step, with
\* compareIndices = [i, j], positions i and j in state comparing and every
\* other position in state default, showing the live values; the live
\* container (values, order, element states) is unchanged, so compare(i, j)
\* returns the same result when it is called again.
C3_Compare ==
    [][\A i, j \in Positions :
          compare(i, j) =>
             /\ Len(steps') = Len(steps) + 1
             /\ SubSeq(steps', 1, Len(steps)) = steps
             /\ LET s == StepView(steps'[Len(steps')], heap')
                IN /\ s.compareIndices = <<i, j>>
                   /\ s.swapIndices = <<>>
                   /\ \A p \in Positions :
                         /\ s.array[p + 1].state =
                               IF p = i \/ p = j THEN "comparing" ELSE "default"
                         /\ s.array[p + 1].value = getResult(p)
             /\ array' = array
             /\ heap' = heap
             /\ compareResult(i, j)' = compareResult(i, j)]_vars

\* A comparison of positions 0 and 1 has been recorded while the element at
\* position 2 was marked sorted: the Step shows it default, the live array
\* still has it sorted.
C3_Witness ==
    /\ Len(array) = 3
    /\ Len(steps) = 3
    /\ steps[2].sortedIndices = <<2>>
    /\ steps[3].compareIndices = <<0, 1>>
    /\ heap[array[3]].state = "sorted"
    /\ View(3).array[3].state = "default"

\* ---------------------------------------------------------------------- C4
\* C4 (as claimed): compare(i, j) returns the sign of value[i] - value[j],
\* exactly -1, 0 or 1.
C4_CompareReturnsSign ==
    \A i, j \in Positions :
        compareResult(i, j) =
            Sign(heap[array[i + 1]].value - heap[array[j + 1]].value)

\* C4 (amended): compare(i, j) returns the difference value[i] - value[j],
\* not normalised to -1/0/1: a negative number when value[i] < value[j], 0
\* when they are equal and a positive number when value[i] > value[j].
C4_CompareReturnsDifference ==
    \A i, j \in Positions :
        LET vi == heap[array[i + 1]].value
            vj == heap[array[j + 1]].value
            r == compareResult(i, j)
        IN /\ (vi < vj) <=> (r < 0)
           /\ (vi = vj) <=> (r = 0)
           /\ (vi > vj) <=> (r > 0)
           /\ r = vi - vj

\* A comparison was recorded whose result is 2, and one whose result is -2
\* is available on the same array.
C4_Witness ==
    /\ Len(steps) >= 2
    /\ steps[Len(steps)].compareIndices = <<0, 1>>
    /\ compareResult(0, 1) = 2
    /\ compareResult(1, 0) = -2

\* ---------------------------------------------------------------------- C5
\* C5 (as claimed): after markSorted(i), position i is in state sorted from
\* then on, in the live container and in every Step recorded afterwards,
\* whatever call comes next.  Stated for the call that follows markSorted(i).
C5_SortedPositionStays ==
    [][\A i \in Positions :
          (steps[Len(steps)].sortedIndices = <<i>>) =>
             /\ heap'[array'[i + 1]].state = "sorted"
             /\ \A k \in Appended :
                   StepView(steps'[k], heap').array[i + 1].state = "sorted"]_vars

\* C5 (amended): after markSorted(i), the element that was at position i
\* stays in state sorted in the live container for the rest of the run, at
\* whichever position later swaps put it, and every Step recorded afterwards
\* by set, markSorted, markRangeSorted, addStep and as the second Step of a
\* swap shows that element sorted; the Steps recorded by compare and the first
\* Step of a swap show it as comparing, swapping or default instead.
C5_SortedElementStays ==
    [][\A o \in DOMAIN heap :
          heap[o].state = "sorted" =>
             /\ heap'[o].state = "sorted"
             /\ \A k \in Appended :
                   LET s == StepView(steps'[k], heap')
                   IN \E p \in 1..Len(s.array) :
                         /\ s.array[p].id = heap[o].id
                         /\ IF s.compareIndices = <<>> /\ s.swapIndices = <<>>
                            THEN s.array[p].state = "sorted"
                            ELSE s.array[p].state \in {"comparing", "swapping", "default"}]_vars

\* An element was marked sorted at position 0 and a swap then moved it to
\* position 1: the live array and the post-swap Step show it sorted there,
\* and position 0 is no longer sorted.
C5_Witness ==
    /\ Len(steps) = 4
    /\ steps[2].sortedIndices = <<0>>
    /\ steps[3].swapIndices = <<0, 1>>
    /\ heap[array[2]].state = "sorted"
    /\ heap[array[1]].state = "default"
    /\ View(4).array[2].state = "sorted"

\* ---------------------------------------------------------------------- C6
\* C6 (as claimed): when a non-empty description is pending, the next Step
\* recorded carries exactly that text, whichever call records it.
C6_NextStepCarriesDescription ==
    [][(stepDescription # "" /\ Len(steps') > Len(steps)) =>
          steps'[Len(steps) + 1].description = Text(stepDescription)]_vars

\* ---------------------------------------------------------------------- C7
\* C7: a pending description is consumed once.  A transition that records
\* Steps puts the pending text on at most one of them (for a swap of two
\* positions, at most on the first of its two Steps) and leaves no
\* description pending; a call that records no Step (get, length, getSteps,
\* swap(i, i), a call that throws) leaves the pending description as it was;
\* setStepDescription(t) makes t the pending description, whatever was
\* pending before.
C7_DescriptionConsumedOnce ==
    [][/\ Len(steps') > Len(steps) =>
             /\ stepDescription' = ""
             /\ stepDescription # "" =>
                   /\ Cardinality({k \in Appended :
                          steps'[k].description = Text(stepDescription)}) <= 1
                   /\ \A k \in Appended :
                          steps'[k].description = Text(stepDescription)
                             => k = Len(steps) + 1
                   /\ (\E i, j \in Indices : swap(i, j)) =>
                          /\ steps'[Len(steps) + 1].description = Text(stepDescription)
                          /\ steps'[Len(steps) + 2].description # Text(stepDescription)
       /\ Len(steps') >= Len(steps)
       /\ (steps' = steps /\ ~(\E t \in Texts : setStepDescription(t))) =>
             stepDescription' = stepDescription
       /\ \A t \in Texts : setStepDescription(t) =>
             (stepDescription' = t /\ steps' = steps)]_vars

\* A pending text was put on the first Step of a swap, not on the second,
\* and nothing is pending afterwards.
C7_Witness ==
    /\ Len(steps) = 3
    /\ steps[2].swapIndices = <<0, 1>>
    /\ steps[2].description = Text("note")
    /\ steps[3].description.tmpl = "Swapped! Position {0} now has {1}, position {2} now has {3}"
    /\ stepDescription = ""

\* ---------------------------------------------------------------------- C8
\* C8: get, set and markSorted called with an index outside [0, length),
\* and compare and swap called with either index outside it, throw and leave
\* the container as it was: the live array and its elements, the recorded
\* Steps and what they show, the pending description, and the trace getSteps
\* returns.
C8_FailureChangesNothing ==
    [][((\E i \in Indices :
            /\ ~InBounds(i)
            /\ (get(i) \/ markSorted(i) \/ \E v \in Values : set(i, v)))
        \/ (\E i, j \in Indices :
            /\ (~InBounds(i) \/ ~InBounds(j))
            /\ (compare(i, j) \/ swap(i, j)))) =>
          /\ thrown' # ""
          /\ UNCHANGED <<array, heap, steps, stepDescription>>
          /\ getStepsResult' = getStepsResult]_vars

\* A call has thrown after Steps were recorded and while a description was
\* pending.
C8_Witness ==
    /\ thrown = "Invalid indices"
    /\ Len(steps) = 3
    /\ steps[3].compareIndices = <<0, 1>>
    /\ stepDescription = "note"

\* ---------------------------------------------------------------------- C9
\* C9 (as claimed): markRangeSorted(start, end) throws, marking and recording
\* nothing, if start > end or end >= length; in every other case it returns,
\* having set every position of [start, end] to sorted and recorded exactly
\* one Step whose sortedIndices are start, start+1, ..., end.
C9_RangeFailsOnlyOnEndAndOrder ==
    [][/\ (\E start, end \in Indices :
             /\ (start > end \/ end >= Len(array))
             /\ markRangeSorted(start, end)) =>
             (thrown' = "Invalid range" /\ UNCHANGED <<array, heap, steps, stepDescription>>)
       /\ \A start, end \in Indices :
             (~(start > end \/ end >= Len(array)) /\ markRangeSorted(start, end)) =>
                /\ thrown' = ""
                /\ Len(steps') = Len(steps) + 1
                /\ steps'[Len(steps')].sortedIndices = RangeIndices(start, end)]_vars

\* C9 (amended): markRangeSorted(start, end) throws, marking and recording
\* nothing, if start < 0, start > end or end >= length; in every other case it
\* returns, having set every position of [start, end] to sorted (and no
\* other), and recorded exactly one Step, which shows these positions sorted
\* and whose sortedIndices are start, start+1, ..., end in this order.
C9_MarkRangeSorted ==
    [][/\ (\E start, end \in Indices :
             /\ (start < 0 \/ start > end \/ end >= Len(array))
             /\ markRangeSorted(start, end)) =>
             (thrown' = "Invalid range" /\ UNCHANGED <<array, heap, steps, stepDescription>>)
       /\ \A start, end \in Positions :
             (start <= end /\ markRangeSorted(start, end)) =>
                /\ thrown' = ""
                /\ array' = array
                /\ \A p \in Positions :
                      /\ heap'[array[p + 1]].value = heap[array[p + 1]].value
                      /\ heap'[array[p + 1]].state =
                            IF start <= p /\ p <= end THEN "sorted"
                            ELSE heap[array[p + 1]].state
                /\ Len(steps') = Len(steps) + 1
                /\ SubSeq(steps', 1, Len(steps)) = steps
                /\ LET s == StepView(steps'[Len(steps')], heap')
                   IN /\ Len(s.sortedIndices) = end - start + 1
                      /\ \A k \in 1..Len(s.sortedIndices) :
                            s.sortedIndices[k] = start + k - 1
                      /\ \A p \in start..end : s.array[p + 1].state = "sorted"]_vars

\* A Step marking the range [1, 2] has been recorded, and position 0 is not
\* sorted.
C9_Witness ==
    /\ Len(array) = 3
    /\ Len(steps) >= 2
    /\ steps[Len(steps)].sortedIndices = <<1, 2>>
    /\ heap[array[1]].state = "default"
    /\ heap[array[2]].state = "sorted"
    /\ heap[array[3]].state = "sorted"
    /\ thrown = ""

\* --------------------------------------------------------------------- C10
\* C10: getSteps() returns the recorded Steps in recording order followed by
\* exactly one more Step, which shows the live values with every element in
\* state sorted, whatever order the values are in; it changes nothing in the
\* container (recorded Steps, live elements, pending description), so a
\* second getSteps() returns a trace of the same length.
C10_GetSteps ==
    /\ [](LET r == getStepsResult
          IN /\ Len(r) = Len(steps) + 1
             /\ SubSeq(r, 1, Len(steps)) = steps
             /\ LET f == StepView(r[Len(r)], heap)
                IN /\ Len(f.array) = Len(array)
                   /\ \A p \in Positions :
                         /\ f.array[p + 1].state = "sorted"
                         /\ f.array[p + 1].value = getResult(p)
                         /\ f.array[p + 1].id = heap[array[p + 1]].id)
    /\ [][getSteps =>
             /\ UNCHANGED <<array, heap, steps, stepDescription>>
             /\ thrown' = ""
             /\ Len(getStepsResult') = Len(getStepsResult)]_vars

\* The values are not in ascending order and no live element is sorted, after
\* a call that returned: the trailing Step of getSteps() still shows every
\* element sorted.
C10_Witness ==
    /\ Len(array) = 3
    /\ Len(steps) = 3
    /\ getResult(0) > getResult(1)
    /\ \A o \in DOMAIN heap : heap[o].state = "default"
    /\ thrown = ""
    /\ StepView(getStepsResult[4], heap).array[1].state = "sorted"

\* C11: set(i, v) with a valid index changes only the value at position i to
\* v: the array holds the same element objects in the same order, the element
\* at i keeps its id and its state, every other element is unchanged; it
\* appends exactly one Step, which has no compareIndices, no swapIndices and
\* no sortedIndices, and afterwards get(i) returns v.  get(i) and length
\* return without appending a Step and without changing anything.
C11_SetGetLength ==
    [][ /\ \A i \in Positions, v \in Values :
            set(i, v) =>
                /\ array' = array
                /\ \A o \in DOMAIN heap :
                       heap'[o] = IF o = array[i + 1]
                                  THEN ArrayElement(v, heap[o].id, heap[o].state)
                                  ELSE heap[o]
                /\ Len(steps') = Len(steps) + 1
                /\ SubSeq(steps', 1, Len(steps)) = steps
                /\ steps'[Len(steps')].compareIndices = <<>>
                /\ steps'[Len(steps')].swapIndices = <<>>
                /\ steps'[Len(steps')].sortedIndices = <<>>
                /\ thrown' = ""
                /\ getResult(i)' = v
        /\ ((\E i \in Positions : get(i)) \/ length) =>
                /\ steps' = steps
                /\ array' = array
                /\ heap' = heap
                /\ stepDescription' = stepDescription
                /\ lengthResult' = lengthResult
                /\ \A i \in Positions : getResult(i)' = getResult(i)
      ]_vars

\* set(1, MaxVal) has just overwritten a 0 in a three-element array: the one
\* appended Step is the plain "Set element" Step.
C11_Witness ==
    /\ Len(array) = 3
    /\ Len(steps) = 2
    /\ steps[2].description = Desc("Set element at index {0} to {1}", <<1, MaxVal>>)
    /\ steps[2].sortedIndices = <<>>
    /\ getResult(1) = MaxVal
    /\ getResult(0) = 0
    /\ thrown = ""

\* The ids a sequence of elements shows.
IdsOf(elements) == [k \in 1..Len(elements) |-> elements[k].id]

\* Each id of 1..n occurs exactly once in ids.
EachIdOnce(ids, n) ==
    /\ Len(ids) = n
    /\ \A id \in 1..n : Cardinality({k \in 1..Len(ids) : ids[k] = id}) = 1

\* C20: element identity is stable in InstrumentedArray.  The constructor
\* gives the elements the ids 1..n; in every reachable state the live array
\* and the snapshot of every recorded Step hold each of these ids exactly
\* once.  swap(i, j) exchanges the ids at positions i and j together with the
\* values, and set(i, v) leaves the id of every position unchanged.
C20_IdentityStable ==
    /\ [](/\ EachIdOnce([k \in 1..Len(array) |-> heap[array[k]].id], Len(array))
          /\ \A k \in 1..Len(steps) : EachIdOnce(IdsOf(View(k).array), Len(array)))
    /\ [][ /\ \A i, j \in Positions :
                swap(i, j) =>
                    /\ heap'[array'[i + 1]].id = heap[array[j + 1]].id
                    /\ heap'[array'[j + 1]].id = heap[array[i + 1]].id
                    /\ getResult(i)' = getResult(j)
                    /\ getResult(j)' = getResult(i)
                    /\ \A k \in Positions \ {i, j} :
                           heap'[array'[k + 1]].id = heap[array[k + 1]].id
           /\ \A i \in Positions, v \in Values :
                set(i, v) =>
                    \A k \in Positions : heap'[array'[k + 1]].id = heap[array[k + 1]].id
         ]_vars

\* swap(0, 2) has moved id 1 to the last position of a three-element array
\* with its value, and the two Steps it recorded show the ids before and
\* after the exchange.
C20_Witness ==
    /\ Len(array) = 3
    /\ Len(steps) = 3
    /\ steps[2].swapIndices = <<0, 2>>
    /\ IdsOf(View(2).array) = <<1, 2, 3>>
    /\ IdsOf(View(3).array) = <<3, 2, 1>>
    /\ heap[array[3]].id = 1
    /\ heap[array[1]].value # heap[array[3]].value

\* ------------------------------------------------ reading a built-in's trace
\* The values the caller's array held when the built-in was called (no
\* built-in writes the value of an element).
InputValues == [k \in 1..Len(input) |-> heap[input[k]].value]

\* The array shown in the last Step of the returned trace.
LastArray == View(Len(steps)).array

Ascending(values) == \A k \in 1..(Len(values) - 1) : values[k] <= values[k + 1]

\* The built-in sorts whose result is determined by the input alone.
DeterministicSorts ==
    {"bubbleSort", "selectionSort", "insertionSort", "quickSort", "mergeSort", "heapSort",
     "shellSort", "combSort", "cocktailSort", "gnomeSort", "pancakeSort", "timSort"}

DistinctValues == \A k, l \in 1..Len(input) : k # l => InputValues[k] # InputValues[l]

\* The (id, value) pairs of a sequence of element records.
Elements(elements) == {<<elements[k].id, elements[k].value>> : k \in 1..Len(elements)}

\* The last Step's array holds the elements of the input, each once, in
\* ascending order of value.
SortedInput ==
    /\ Len(steps) >= 1
    /\ Len(LastArray) = Len(input)
    /\ Elements(LastArray) = {<<heap[input[k]].id, heap[input[k]].value>> : k \in 1..Len(input)}
    /\ Ascending([k \in 1..Len(LastArray) |-> LastArray[k].value])

\* C12: a call of a deterministic built-in sort on a non-empty array of
\* distinct integers returns a trace whose last Step shows exactly the
\* elements of the input in ascending order of value.
C12_DeterministicSortsSort ==
    (pc # "idle" /\ algorithm \in DeterministicSorts /\ Len(input) >= 1 /\ DistinctValues)
        => pc = "returned" /\ SortedInput

\* selectionSort has returned from an input of full length in descending order.
C12_Witness ==
    /\ pc = "returned" /\ algorithm = "selectionSort"
    /\ Len(input) = SortLen
    /\ \A k \in 1..(Len(input) - 1) : InputValues[k] > InputValues[k + 1]
    /\ SortedInput

\* C13: every call of a deterministic built-in sort, on any input, comes to
\* an end by returning a trace of at least one Step.
C13_DeterministicSortsReturn ==
    (pc # "idle" /\ algorithm \in DeterministicSorts)
        => pc = "returned" /\ Len(steps) >= 1

\* The Steps of a trace that open a shuffle.
ShuffleSteps(trace) ==
    {k \in 1..Len(trace) : trace[k].description = Text("Randomly shuffling array...")}

\* C14: a call of bogoSort never records more than 50 shuffles, a shuffle
\* is made only from an array that is not in non-descending order, and a
\* call that has entered the loop returns.
C14_BogoSortBounded ==
    /\ [](algorithm = "bogoSort"
              => /\ Cardinality(ShuffleSteps(steps)) <= AttemptLimit
                 /\ Cardinality(ShuffleSteps(steps)) = attempts
                 /\ (isSorted(input, heap) => ShuffleSteps(steps) = {}))
    /\ [][ShuffleSteps(steps') # ShuffleSteps(steps) => ~isSorted(array, heap)]_vars
    /\ ((algorithm = "bogoSort" /\ pc = "loop") ~> (pc = "returned"))

\* bogoSort has returned after recording 50 shuffles.
C14_Witness ==
    /\ algorithm = "bogoSort" /\ pc = "returned"
    /\ Cardinality(ShuffleSteps(steps)) = AttemptLimit

BogoStopped == Text("Bogo Sort stopped after 50 attempts to prevent infinite loop!")

\* A Step reporting that bogoSort is complete.
BogoComplete(step) ==
    \E n \in 0..AttemptLimit :
        step.description = Desc("Bogo Sort complete after {0} attempts! Pure luck!", <<n>>)

\* Step k shows some element in state sorted that is not in that state in
\* the caller's array, or lists sorted positions.
MarksSorted(k) ==
    \/ steps[k].sortedIndices # <<>>
    \/ \E j \in 1..Len(View(k).array) :
           /\ View(k).array[j].state = "sorted"
           /\ \A o \in 1..Len(input) :
                  heap[input[o]].id = View(k).array[j].id => heap[input[o]].state # "sorted"

\* C15: when bogoSort returns after 50 shuffles with its array still out of
\* order, the last Step is the 'stopped after 50 attempts' Step and no Step
\* marks an element sorted or reports completion; a Step reporting
\* completion is in the trace only if the final array is in non-descending
\* order.
C15_BogoSortGivesUp ==
    (algorithm = "bogoSort" /\ pc = "returned")
        => /\ (attempts = AttemptLimit /\ ~isSorted(array, heap))
                  => /\ steps[Len(steps)].description = BogoStopped
                     /\ \A k \in 1..Len(steps) : ~MarksSorted(k) /\ ~BogoComplete(steps[k])
           /\ (\E k \in 1..Len(steps) : BogoComplete(steps[k])) => isSorted(array, heap)

\* bogoSort has returned after 50 shuffles that all left the array out of order.
C15_Witness ==
    /\ algorithm = "bogoSort" /\ pc = "returned"
    /\ attempts = AttemptLimit /\ ~isSorted(array, heap)
    /\ steps[Len(steps)].description = BogoStopped

\* The elements of the array a as the heap h holds them.
ElementsOf(a, h) == [k \in 1..Len(a) |-> h[a[k]]]

\* C16: a call of miracleSort returns a trace in which every Step shows the
\* input's elements in the input's order; if the input is in non-descending
\* order the last Step shows every element in state sorted, and otherwise
\* every Step shows the elements in the states the caller gave them, none
\* lists sorted positions, and the last Step reports that the array remains
\* unsorted.
C16_MiracleSort ==
    [][miracleSort
         => /\ pc' = "returned" /\ Len(steps') >= 1
            /\ \A k \in 1..Len(steps') :
                   /\ Len(steps'[k].array) = Len(input)
                   /\ \A j \in 1..Len(input) :
                          /\ StepView(steps'[k], heap').array[j].id = heap[input[j]].id
                          /\ StepView(steps'[k], heap').array[j].value = heap[input[j]].value
            /\ IF isSorted(input, heap)
               THEN \A j \in 1..Len(input) :
                        StepView(steps'[Len(steps')], heap').array[j].state = "sorted"
               ELSE /\ \A k \in 1..Len(steps') :
                           /\ StepView(steps'[k], heap').array = ElementsOf(input, heap)
                           /\ steps'[k].sortedIndices = <<>>
                    /\ steps'[Len(steps')].description =
                           Text("Miracle did not occur. Array remains unsorted. Try again later!")]_vars

\* miracleSort has returned from an input of full length that is out of
\* order and whose elements are in state default.
C16_Witness ==
    /\ algorithm = "miracleSort" /\ pc = "returned"
    /\ Len(input) = SortLen /\ ~isSorted(input, heap)
    /\ \A o \in 1..Len(input) : heap[input[o]].state = "default"
    /\ Len(steps) = 4

\* The built-in sorts that place elements through tables instead of comparing.
DistributionSorts == {"countingSort", "radixSort", "bucketSort"}

\* C17: a call of countingSort, radixSort or bucketSort on the empty array
\* fails with an InvalidInput error and returns no trace.
C17_EmptyInputRejected ==
    (pc # "idle" /\ algorithm \in DistributionSorts /\ Len(input) = 0)
        => pc = "thrown" /\ thrown = "InvalidInput"

\* Every element a Step of the trace shows is an element with its three
\* fields (an array slot that was never written reads undefined).
NoHoles ==
    \A k \in 1..Len(steps) : \A j \in 1..Len(View(k).array) :
        DOMAIN View(k).array[j] = {"value", "id", "state"}

\* C18: a call of countingSort, radixSort or bucketSort on a non-empty
\* array of integers that is not rejected with InvalidInput addresses its
\* tables within their bounds (so it raises no error and leaves no slot of
\* its arrays unwritten) and returns a trace whose last Step shows the
\* input's elements in ascending order of value.
C18_DistributionSortsSort ==
    (pc # "idle" /\ algorithm \in DistributionSorts /\ Len(input) >= 1 /\ thrown # "InvalidInput")
        => pc = "returned" /\ NoHoles /\ SortedInput

\* C19: no step of a call of a built-in changes the caller's array or the
\* value, id or state of one of its elements.
C19_InputUnchanged ==
    [][/\ input' = input
       /\ \A o \in 1..Len(input) : heap'[input[o]] = heap[input[o]]]_vars

\* The snapshot of Step k of the returned trace holds every element of the
\* input exactly once: as many elements as the input, each with an id, and
\* every id of the input at exactly one position.
InputIdsOnce(k) ==
    /\ Len(View(k).array) = Len(input)
    /\ \A j \in 1..Len(View(k).array) : "id" \in DOMAIN View(k).array[j]
    /\ \A o \in 1..Len(input) :
           Cardinality({j \in 1..Len(View(k).array) :
                            View(k).array[j].id = heap[input[o]].id}) = 1

\* C21: in every Step of a trace that a built-in has returned, the snapshot
\* is a reordering of the input's elements: each id of the input exactly once.
C21_StepsHoldEachIdOnce ==
    pc = "returned" => \A k \in 1..Len(steps) : InputIdsOnce(k)

\* The length of the array the run started from: the array given to the
\* constructor (one element object each), or the array given to the built-in.
InputLength == IF Instrumented THEN Len(heap) ELSE Len(input)

\* C22: the snapshot of every Step of a trace has the length of the input,
\* in every state of a run on an InstrumentedArray and in every trace a
\* built-in returns.
C22_SnapshotLength ==
    \A k \in 1..Len(steps) : Len(steps[k].array) = InputLength

\* sleepSort has returned from an input of full length: the Step recorded
\* when the first element woke up shows it followed by padding.
C22_Witness ==
    /\ algorithm = "sleepSort" /\ pc = "returned"
    /\ Len(input) = SortLen
    /\ Len(steps[2].array) = SortLen
    /\ steps[2].array[1].kind = "ref"
    /\ \A j \in 2..SortLen : steps[2].array[j].kind = "own"

\* C23 as stated: in the state the constructor of an InstrumentedArray
\* leaves, before any operation, no Step is recorded and getSteps() returns
\* the synthetic trailing Step alone.
C23_TraceStartsEmpty ==
    Init => steps = <<>> /\ Len(getStepsResult) = 1

\* C23: in the state the constructor of an InstrumentedArray leaves, before
\* any operation, exactly one Step is recorded: it has the description
\* 'Starting custom algorithm', no index lists, and shows the input's
\* elements in input order, each in state default.  getSteps() returns that
\* Step followed by the synthetic trailing Step.
C23_TraceStartsWithInitialStep ==
    Init => /\ Len(steps) = 1
            /\ steps[1].description = Text("Starting custom algorithm")
            /\ steps[1].compareIndices = <<>>
            /\ steps[1].swapIndices = <<>>
            /\ steps[1].sortedIndices = <<>>
            /\ View(1).array = [k \in 1..Len(array) |-> heap[array[k]]]
            /\ \A k \in 1..Len(array) : View(1).array[k].state = "default" /\ View(1).array[k].id = k
            /\ Len(getStepsResult) = 2
            /\ getStepsResult[1] = steps[1]
            /\ getStepsResult[2].description = Text("Algorithm completed! All elements are sorted.")

\* An InstrumentedArray of full length has just been constructed.
C23_Witness ==
    /\ Init
    /\ Len(array) = MaxLen
    /\ Len(steps) = 1
    /\ Len(getStepsResult) = 2

\* The caller's code of the example: compare(0, 1), then a throw.
CompareThenThrow ==
    [text |-> "typed", calls |-> << Invocation("compare", 0, 1) >>, ends |-> "throw"]

\* The run of that code against an InstrumentedArray that compare(0, 1)
\* accepts has ended.
CompareThenThrowEnded ==
    /\ ran.code = CompareThenThrow
    /\ ran.useVisualization
    /\ run \in {"settled", "escaped"}
    /\ Len(array) >= 2

\* C24 (as stated): when the caller's code calls compare(0, 1) and then
\* throws, the error does not leave handleRunCode, isRunning is false again,
\* and the trace left behind holds exactly one Step, the one compare appended.
C24_TraceHoldsOnlyCompareStep ==
    CompareThenThrowEnded =>
        /\ run = "settled"
        /\ ~isRunning
        /\ Len(steps) = 1
        /\ steps[1].compareIndices = <<0, 1>>

\* C24 (amended): when the caller's code calls compare(0, 1) and then throws,
\* the error does not leave handleRunCode, isRunning is false again, and the
\* trace left behind holds two Steps: the constructor's initial Step and
\* the one compare appended; getSteps() adds its trailing Step to them.
C24_TraceHoldsInitialAndCompareStep ==
    CompareThenThrowEnded =>
        /\ run = "settled"
        /\ ~isRunning
        /\ Len(steps) = 2
        /\ steps[1].description = Text("Starting custom algorithm")
        /\ steps[1].compareIndices = <<>>
        /\ steps[2].compareIndices = <<0, 1>>
        /\ steps[2].swapIndices = <<>> /\ steps[2].sortedIndices = <<>>
        /\ \A k \in 1..Len(array) :
               View(2).array[k] =
                   [heap[array[k]] EXCEPT !.state = IF k <= 2 THEN "comparing" ELSE "default"]
        /\ Len(getStepsResult) = 3
        /\ getStepsResult[1] = steps[1] /\ getStepsResult[2] = steps[2]

\* The code of the example has been run and has failed, and the editor
\* already holds another text.
C24_Witness ==
    /\ ran.code = CompareThenThrow
    /\ ran.useVisualization
    /\ code # ran.code
    /\ run = "settled"
    /\ ~isRunning
    /\ Len(array) = MaxLen
    /\ Len(steps) = 2
    /\ steps[2].compareIndices = <<0, 1>>

\* C25: a call of a deterministic built-in sort on a non-empty array returns
\* a trace whose last Step shows every element in state sorted.
C25_LastStepAllSorted ==
    (pc = "returned" /\ algorithm \in DeterministicSorts /\ Len(input) >= 1) =>
        /\ Len(steps) >= 1
        /\ Len(LastArray) = Len(input)
        /\ \A j \in 1..Len(LastArray) :
               "state" \in DOMAIN LastArray[j] /\ LastArray[j].state = "sorted"

C25_Witness ==
    /\ pc = "returned"
    /\ algorithm = "bubbleSort"
    /\ Len(input) = SortLen
    /\ \E k \in 1..Len(steps) : steps[k].swapIndices # <<>>
    /\ \A j \in 1..SortLen :
           steps[Len(steps)].array[j].kind = "ref" /\ LastArray[j].state = "sorted"

\* The values a Step shows, by position.
ValuesShown(k) == [p \in 1..Len(View(k).array) |-> View(k).array[p].value]

\* Step k + 1 shows the values of Step k with those at j and j + 1 exchanged.
ExchangedAfter(k, j) ==
    /\ k < Len(steps)
    /\ Len(ValuesShown(k + 1)) = Len(ValuesShown(k))
    /\ \A p \in 1..Len(ValuesShown(k)) :
           ValuesShown(k + 1)[p] =
               IF p = j + 1 THEN ValuesShown(k)[j + 2]
               ELSE IF p = j + 2 THEN ValuesShown(k)[j + 1]
               ELSE ValuesShown(k)[p]

\* Step k of the trace says positions j and j + 1 are swapped.
SwapStepAt(k, j) == k \in 1..Len(steps) /\ steps[k].swapIndices = <<j, j + 1>>

\* Step k is a compare Step of positions j and j + 1 that shows the value at j
\* greater than the value at j + 1.
InversionComparedAt(k, j) ==
    /\ k \in 1..Len(steps)
    /\ steps[k].compareIndices = <<j, j + 1>>
    /\ ValuesShown(k)[j + 1] > ValuesShown(k)[j + 2]

\* C26: in the trace bubbleSort returns, a Step with swapIndices = [j, j + 1]
\* appears exactly when the Step before it is a compare Step of j and j + 1
\* showing the value at j greater than the value at j + 1, and the Step after
\* it shows the two values exchanged; when the input's positions 0 and 1 are
\* inverted the first swap Step has swapIndices = [0, 1]; the last Step is in
\* ascending order, [1, 3, 5, 8] for the input [5, 3, 8, 1].
C26_BubbleSortSwaps ==
    (pc = "returned" /\ algorithm = "bubbleSort") =>
        /\ \A k \in 1..Len(steps) :
               /\ steps[k].swapIndices # <<>> =>
                      \E j \in 0..(Len(input) - 2) : SwapStepAt(k, j)
               /\ steps[k].compareIndices # <<>> =>
                      \E j \in 0..(Len(input) - 2) : steps[k].compareIndices = <<j, j + 1>>
        /\ \A k \in 1..Len(steps), j \in 0..(Len(input) - 2) :
               /\ SwapStepAt(k, j) <=> InversionComparedAt(k - 1, j)
               /\ SwapStepAt(k, j) => ExchangedAfter(k, j)
        /\ (Len(input) >= 2 /\ InputValues[1] > InputValues[2]) =>
               \E k \in 1..Len(steps) :
                   /\ SwapStepAt(k, 0)
                   /\ \A l \in 1..(k - 1) : steps[l].swapIndices = <<>>
        /\ Ascending(ValuesShown(Len(steps)))
        /\ InputValues = <<5, 3, 8, 1>> => ValuesShown(Len(steps)) = <<1, 3, 5, 8>>

C26_Witness ==
    /\ pc = "returned"
    /\ algorithm = "bubbleSort"
    /\ InputValues = <<5, 3, 8, 1>>
    /\ InversionComparedAt(2, 0) /\ SwapStepAt(3, 0) /\ ExchangedAfter(3, 0)
    /\ ValuesShown(Len(steps)) = <<1, 3, 5, 8>>

\* The built-in sorts that mark elements sorted one at a time.
MarkingSorts == {"bubbleSort", "selectionSort", "heapSort", "pancakeSort"}

\* C27: in the trace returned by bubbleSort, selectionSort, heapSort or
\* pancakeSort, the initial Step, recorded before any element was marked
\* sorted, shows every element in the state it had in the input when it is
\* read after the run.
C27_InitialStepKeepsInputStates ==
    [][(pc = "idle" /\ pc' = "returned" /\ algorithm' \in MarkingSorts) =>
           /\ Len(steps') >= 1
           /\ Len(steps'[1].array) = Len(input)
           /\ \A j \in 1..Len(input) :
                  StepView(steps'[1], heap').array[j].state = heap[input[j]].state]_vars

\* C28: the trace bogoSort returns never holds both the 'stopped after 50
\* attempts' Step and a Step reporting completion, and it holds the stopped
\* Step only when the final array is not in non-descending order.
C28_StoppedOrComplete ==
    (algorithm = "bogoSort" /\ pc = "returned") =>
        \A k \in 1..Len(steps) :
            steps[k].description = BogoStopped =>
                /\ \A l \in 1..Len(steps) : ~BogoComplete(steps[l])
                /\ ~isSorted(array, heap)

\* The built-in sorts that order the elements by comparing their values.
ComparisonSorts == DeterministicSorts

\* C29: a call of a built-in comparison sort on the empty array or on an
\* array of one element returns a trace and raises no error.
C29_ShortInputsReturn ==
    (pc # "idle" /\ algorithm \in ComparisonSorts /\ Len(input) <= 1)
        => pc = "returned" /\ thrown = ""

\* The first n of the values (positions 0..n-1) form a max-heap:
\* no child is greater than its parent.
MaxHeap(values, n) ==
    \A c \in 1..(n - 1) : values[((c - 1) \div 2) + 1] >= values[c + 1]

\* Positions i..n-1 of the values hold the largest of them in ascending order.
LargestAscendingFrom(values, i) ==
    /\ \A p \in (i + 1)..(Len(values) - 1) : values[p] <= values[p + 1]
    /\ \A p \in 1..i, q \in (i + 1)..Len(values) : values[p] <= values[q]

\* The Steps that open the extraction of the maximum to position i.
MovingSteps(i) ==
    {k \in 1..Len(steps) :
        /\ steps[k].description.tmpl = "Moving max element {0} to position {1}"
        /\ steps[k].description.args[2] = i}

\* C30: in a call of heapSort the 'Max heap built successfully' Step shows a
\* max-heap over the whole array; the extraction to each position i from
\* n - 1 down to 1 starts from a max-heap over positions 0..i with the
\* largest values in ascending order above i (what the extraction before it
\* left), puts the maximum at i so that positions i..n-1 hold the n - i
\* largest values in ascending order, and the last Step is what the
\* extraction to position 1 left: all values in ascending order.
C30_HeapSortInvariants ==
    (pc = "returned" /\ algorithm = "heapSort") =>
        LET n == Len(input) IN
        /\ Cardinality({k \in 1..Len(steps) :
               steps[k].description = Text("Max heap built successfully")}) = 1
        /\ \A k \in 1..Len(steps) :
               steps[k].description = Text("Max heap built successfully") =>
                   /\ Len(ValuesShown(k)) = n
                   /\ MaxHeap(ValuesShown(k), n)
        /\ \A i \in 1..(n - 1) :
               /\ Cardinality(MovingSteps(i)) = 1
               /\ \A k \in MovingSteps(i) :
                      /\ MaxHeap(ValuesShown(k), i + 1)
                      /\ LargestAscendingFrom(ValuesShown(k), i + 1)
                      /\ steps[k].description.args[1] = ValuesShown(k)[1]
                      /\ k < Len(steps)
                      /\ steps[k + 1].description =
                             Desc("Element {0} is now in its final position",
                                  <<ValuesShown(k)[1]>>)
                      /\ ValuesShown(k + 1)[i + 1] = ValuesShown(k)[1]
                      /\ LargestAscendingFrom(ValuesShown(k + 1), i)
        /\ LargestAscendingFrom(ValuesShown(Len(steps)), 0)

\* heapSort has returned from an array with duplicates whose build phase and
\* whose extractions both had to sift an element down.
C30_Witness ==
    /\ pc = "returned"
    /\ algorithm = "heapSort"
    /\ Len(input) = SortLen
    /\ ~DistinctValues
    /\ \E k \in 1..Len(steps) :
           /\ steps[k].description = Text("Max heap built successfully")
           /\ \E l \in 1..(k - 1) : steps[l].description.tmpl = "Heapifying: Swapping {0} with {1}"
           /\ \E l \in (k + 1)..Len(steps) : steps[l].description.tmpl = "Heapifying: Swapping {0} with {1}"
           /\ MaxHeap(ValuesShown(k), SortLen)

====
